---- MODULE Spec2Model ----
(***************************************************************************)
(* Model of makers-lab-demos/Christmas-lights.py: a NeoPixel strand with   *)
(* four display modes cycled by a push button.  The program is one loop:   *)
(* poll the button, run the update of the current mode, sleep the rest of  *)
(* the frame.                                                              *)
(*                                                                         *)
(* Floats are modelled in fixed point: a real x is the integer             *)
(* floor(x * SCALE).  Pixel arrays are functions over 0..NUM_LEDS-1.       *)
(***************************************************************************)
EXTENDS Integers, Sequences, FiniteSets, TLC

\* ----------------------------------------------------------------- bounds

\* Strand length of the model (the program drives 200 pixels).
NUM_LEDS == 2

\* Loop iterations of a run of the interactive specification.
MaxFrames == 5

\* Loop iterations of a run of the animation specification, after the mode
\* has been picked.
AnimFrames == 61

\* In the animation specification the trigger draw may pass the probability
\* test in every TriggerStride-th loop iteration only.
TriggerStride == 3

\* ------------------------------------------------------ program constants

FPS == 40
FRAME_DELAY == 1000 \div FPS

\* One unit of the fixed-point representation of a float.
SCALE == 10000

MODE1_BASE_V == (6 * SCALE) \div 100
MODE1_SPARKLE_V == (95 * SCALE) \div 100
MODE1_SPARKLE_STEPS == 22
MODE1_SPARKLE_PROB == 40

MODE2_WHITE_VAL == 40
MODE2_RED_VAL == 25
MODE2_GREEN_VAL == 25
MODE2_SPARKLE_VAL == 220

MODE3_BASE_V == (1 * SCALE) \div 100
MODE3_TWINKLE_V == (5 * SCALE) \div 10
MODE3_TWINKLE_STEPS == 60
MODE3_TWINKLE_PROB == 210

BUTTON_DEBOUNCE_MS == 250

Pixels == 0 .. (NUM_LEDS - 1)

\* Pixel indices looked at where a function of the index is checked on its
\* own: two full white/red/green periods.
MaxIndex == 5

\* ---------------------------------------------------------------- helpers

Min(a, b) == IF a < b THEN a ELSE b
Max(a, b) == IF a > b THEN a ELSE b

\* Product of two fixed-point numbers.
fmul(a, b) == (a * b) \div SCALE

\* int(x * 255) for a fixed-point x >= 0.
int255(x) == (x * 255) \div SCALE

\* Largest r in lo..hi with r * r <= n (lo * lo <= n is given).
RECURSIVE IsqrtIn(_, _, _)
IsqrtIn(lo, hi, n) ==
    IF lo >= hi THEN lo
    ELSE LET mid == (lo + hi + 1) \div 2
         IN  IF mid * mid <= n THEN IsqrtIn(mid, hi, n)
             ELSE IsqrtIn(lo, mid - 1, n)

\* Square root of a fixed-point number in [0, 1].
fsqrt(x) == IsqrtIn(0, SCALE, x * SCALE)

\* x ** (1 / 2^k): k square roots in a row.
RECURSIVE RootPow2(_, _)
RootPow2(x, k) == IF k = 0 THEN x ELSE fsqrt(RootPow2(x, k - 1))

\* u ** 1.5 = u * sqrt(u), for u in [0, 1].
pow15(u) == fmul(u, fsqrt(u))

\* u ** 1.3 for u in [0, 1]: 0.3 = 1/4 + 1/32 + 1/64 + 1/512 + 1/1024 + ...
\* (binary 0.0100110011...), each factor an iterated square root.
pow13(u) ==
    IF u = 0 THEN 0
    ELSE fmul(u, fmul(RootPow2(u, 2), fmul(RootPow2(u, 5), fmul(RootPow2(u, 6),
              fmul(RootPow2(u, 9), RootPow2(u, 10))))))

\* Mutant of hsv_to_rgb: the monochrome path rounds v * 255 to the nearest
\* integer instead of truncating it.
hsv_to_rgb_grey_rounded(h, s, v) ==
    IF s <= 0
    THEN LET val == (v * 255 + SCALE \div 2) \div SCALE IN <<val, val, val>>
    ELSE LET hw == h % SCALE
             h6 == hw * 6
             i0 == h6 \div SCALE
             f  == h6 - i0 * SCALE
             p  == fmul(v, SCALE - s)
             q  == fmul(v, SCALE - fmul(s, f))
             t  == fmul(v, SCALE - fmul(s, SCALE - f))
             i  == i0 % 6
             rgb == CASE i = 0 -> <<v, t, p>>
                      [] i = 1 -> <<q, v, p>>
                      [] i = 2 -> <<p, v, t>>
                      [] i = 3 -> <<p, q, v>>
                      [] i = 4 -> <<t, p, v>>
                      [] OTHER -> <<v, p, q>>
         IN  <<int255(rgb[1]), int255(rgb[2]), int255(rgb[3])>>

\* Mutant of hsv_to_rgb: the channels are scaled by 256 instead of 255.
hsv_to_rgb_scaled_256(h, s, v) ==
    IF s <= 0
    THEN LET val == (v * 256) \div SCALE IN <<val, val, val>>
    ELSE LET hw == h % SCALE
             h6 == hw * 6
             i0 == h6 \div SCALE
             f  == h6 - i0 * SCALE
             p  == fmul(v, SCALE - s)
             q  == fmul(v, SCALE - fmul(s, f))
             t  == fmul(v, SCALE - fmul(s, SCALE - f))
             i  == i0 % 6
             rgb == CASE i = 0 -> <<v, t, p>>
                      [] i = 1 -> <<q, v, p>>
                      [] i = 2 -> <<p, v, t>>
                      [] i = 3 -> <<p, q, v>>
                      [] i = 4 -> <<t, p, v>>
                      [] OTHER -> <<v, p, q>>
         IN  <<(rgb[1] * 256) \div SCALE, (rgb[2] * 256) \div SCALE,
               (rgb[3] * 256) \div SCALE>>

\* Mutant of hsv_to_rgb: neither the hue nor the sector index is wrapped.
hsv_to_rgb_unwrapped(h, s, v) ==
    IF s <= 0
    THEN LET val == int255(v) IN <<val, val, val>>
    ELSE LET h6 == h * 6
             i  == h6 \div SCALE
             f  == h6 - i * SCALE
             p  == fmul(v, SCALE - s)
             q  == fmul(v, SCALE - fmul(s, f))
             t  == fmul(v, SCALE - fmul(s, SCALE - f))
             rgb == CASE i = 0 -> <<v, t, p>>
                      [] i = 1 -> <<q, v, p>>
                      [] i = 2 -> <<p, v, t>>
                      [] i = 3 -> <<p, q, v>>
                      [] i = 4 -> <<t, p, v>>
                      [] OTHER -> <<v, p, q>>
         IN  <<int255(rgb[1]), int255(rgb[2]), int255(rgb[3])>>

\* hsv_to_rgb: h, s, v fixed point in [0, 1] (h may exceed 1 and is wrapped).
hsv_to_rgb(h, s, v) ==
    IF s <= 0
    THEN LET val == int255(v) IN <<val, val, val>>
    ELSE LET hw == h % SCALE
             h6 == hw * 6
             i0 == h6 \div SCALE
             f  == h6 - i0 * SCALE
             p  == fmul(v, SCALE - s)
             q  == fmul(v, SCALE - fmul(s, f))
             t  == fmul(v, SCALE - fmul(s, SCALE - f))
             i  == i0 % 6
             rgb == CASE i = 0 -> <<v, t, p>>
                      [] i = 1 -> <<q, v, p>>
                      [] i = 2 -> <<p, v, t>>
                      [] i = 3 -> <<p, q, v>>
                      [] i = 4 -> <<t, p, v>>
                      [] OTHER -> <<v, p, q>>
         IN  <<int255(rgb[1]), int255(rgb[2]), int255(rgb[3])>>

\* random_float: getrandbits(16) / 65535.0
random_float(bits) == (bits * SCALE) \div 65535

\* lerp: int(a + (b - a) * t), a and b integers, t fixed point.
lerp(a, b, t) == (a * SCALE + (b - a) * t) \div SCALE

\* The triangular ramp of an envelope, clamped to [0, 1], before shaping.
\* Mutant of Ramp: the falling half counts from one step later.
Ramp_falling_late(phase, steps) ==
    LET half == steps \div 2
        u    == IF phase <= half
                THEN (phase * SCALE) \div half
                ELSE ((steps - phase + 1) * SCALE) \div half
    IN  Max(0, Min(SCALE, u))

Ramp(phase, steps) ==
    LET half == steps \div 2
        u    == IF phase <= half
                THEN (phase * SCALE) \div half
                ELSE ((steps - phase) * SCALE) \div half
    IN  Max(0, Min(SCALE, u))

\* Shaped progress of the sparkle (modes 1, 2) and twinkle (mode 3) envelopes.
SparkleU == [phase \in 1 .. MODE1_SPARKLE_STEPS |->
                pow15(Ramp(phase, MODE1_SPARKLE_STEPS))]
TwinkleU == [phase \in 1 .. MODE3_TWINKLE_STEPS |->
                pow13(Ramp(phase, MODE3_TWINKLE_STEPS))]

\* ------------------------------------------------------------------ state

VARIABLES
    current_mode,       \* 1..4
    last_button_time,   \* ticks_ms of the last accepted press
    base_hue_mode1,     \* per-pixel hue of mode 1 (fixed point)
    sparkle_phase,      \* per-pixel phase, mode 1
    sparkle_phase2,     \* per-pixel phase, mode 2
    twinkle_phase3,     \* per-pixel phase, mode 3
    np,                 \* the NeoPixel frame buffer: a triple per pixel
    strip,              \* what the LEDs show: the buffer at the last np.write()
    ticks,              \* time.ticks_ms()
    pc,                 \* where main() is: "boot", "poll", "update", "sleep",
                        \* or "error" (ended by an uncaught exception)
    config,             \* the configuration constants of mode 1 the run was
                        \* built with: [steps, prob]
    evaluated,          \* the latest evaluation of a function on its own:
                        \* [fn, args, result]
    start,              \* main's local: ticks_ms at the top of the iteration
    pressed,            \* the button read pressed at the latest poll
    prev_pressed,       \* the button read pressed at the poll before that
    trans_at,           \* ticks of the latest mode change (-1: none yet)
    calls,              \* functions invoked by the latest step, in order
    flushes,            \* np.write() calls made by the latest step
    torn,               \* those of them issued before every buffer entry
                        \* had been written by the call
    unflushed,          \* entries the latest step wrote after its last flush
    slept,              \* sleep_ms requests of the latest step
    frames,             \* loop iterations started so far
    picked,             \* the pixel index the latest step's trigger drew
                        \* (-1: the step made no passing trigger draw)
    age,                \* age[k][i]: update calls of mode k that pixel i's
                        \* running envelope has been through (0: idle)
    lasted,             \* lasted[k][i]: the calls pixel i's envelope took, if
                        \* the latest step's update of mode k ended it (else 0)
    controller,         \* simple-midi-controller/code.py: its debouncers,
                        \* its pixel and the MIDI messages of its latest step
    joystick,           \* joystick-zero2w/sensorDataToOSC-05.py: its globals
                        \* and where its main loop is
    sonar,              \* distance-pico-w/main.py: where read_distance and
                        \* the main loop are, and the datagrams sent
    logger,             \* airQuality/code.py: its globals, the files on the
                        \* card and what its latest iteration did
    thermo,             \* temperature-humidity/pico/code.py: the attempts
                        \* and the outcome of its latest cycle
    organ,              \* colorOrganStrip/code.py: pixelArray, the strip and
                        \* the colours received
    student             \* sensorDataToOSC-05.py: student_name, name_lock,
                        \* and the threads that store and show it

progvars == <<current_mode, last_button_time, base_hue_mode1, sparkle_phase,
              sparkle_phase2, twinkle_phase3, np, strip>>
vars == <<current_mode, last_button_time, base_hue_mode1, sparkle_phase,
          sparkle_phase2, twinkle_phase3, np, strip, ticks, pc, config,
          evaluated, start, pressed, prev_pressed, trans_at, calls, flushes,
          torn,
          unflushed,
          slept, frames, picked, age, lasted, controller, joystick, sonar,
          logger, thermo, organ, student>>

\* The other programs of the repository, one variable each.
boards == <<logger, thermo, organ, student>>
devices == <<controller, joystick, sonar, boards>>

\* Everything of the light show but the evaluations of single functions.
lightvars == <<progvars, ticks, pc, config, start, pressed, prev_pressed,
               trans_at, calls, flushes, torn, unflushed, slept, frames,
               picked, age, lasted>>

\* The module globals as one record, at the start of a step (no call made yet).
Globals ==
    [current_mode |-> current_mode, last_button_time |-> last_button_time,
     base_hue_mode1 |-> base_hue_mode1, sparkle_phase |-> sparkle_phase,
     sparkle_phase2 |-> sparkle_phase2, twinkle_phase3 |-> twinkle_phase3,
     np |-> np, strip |-> strip, calls |-> <<>>, flushes |-> 0,
     torn |-> 0, written |-> {}]

\* The phase array and the envelope length of mode k (1..3).
PhaseOf(G, k) ==
    CASE k = 1 -> G.sparkle_phase
      [] k = 2 -> G.sparkle_phase2
      [] OTHER -> G.twinkle_phase3

StepsOf(k) ==
    CASE k = 1 -> MODE1_SPARKLE_STEPS
      [] k = 2 -> MODE1_SPARKLE_STEPS
      [] OTHER -> MODE3_TWINKLE_STEPS

UpdateName(k) ==
    CASE k = 1 -> "update_mode1"
      [] k = 2 -> "update_mode2"
      [] OTHER -> "update_mode3"

Invoked(G, fn) == \E n \in 1 .. Len(G.calls) : G.calls[n] = fn

\* The call counters of the envelopes after a step that leaves the globals G.
AgeAfter(G) ==
    [k \in 1 .. 3 |-> [i \in Pixels |->
        LET old == PhaseOf(Globals, k)[i]
            new == PhaseOf(G, k)[i]
        IN  IF new = 0 THEN 0
            ELSE IF old = 0 THEN 1
            ELSE IF Invoked(G, UpdateName(k)) THEN age[k][i] + 1
            ELSE age[k][i]]]

LastedAfter(G) ==
    [k \in 1 .. 3 |-> [i \in Pixels |->
        IF /\ Invoked(G, UpdateName(k))
           /\ PhaseOf(Globals, k)[i] # 0
           /\ PhaseOf(G, k)[i] = 0
        THEN age[k][i] + 1 ELSE 0]]

Store(G) ==
    /\ age' = AgeAfter(G)
    /\ lasted' = LastedAfter(G)
    /\ current_mode' = G.current_mode
    /\ last_button_time' = G.last_button_time
    /\ base_hue_mode1' = G.base_hue_mode1
    /\ sparkle_phase' = G.sparkle_phase
    /\ sparkle_phase2' = G.sparkle_phase2
    /\ twinkle_phase3' = G.twinkle_phase3
    /\ np' = G.np
    /\ strip' = G.strip
    /\ calls' = G.calls
    /\ flushes' = G.flushes
    /\ torn' = G.torn
    /\ unflushed' = G.written

Called(G, fn) == [G EXCEPT !.calls = Append(@, fn)]

\* np.write(): the LEDs take the buffer as it is now.
Write(G) ==
    [G EXCEPT !.strip = G.np, !.flushes = @ + 1,
              !.torn = IF G.written = Pixels THEN @ ELSE @ + 1,
              !.written = {}]

Black == <<0, 0, 0>>
Zeros == [i \in Pixels |-> 0]

\* ---------------------------------------------------- mode initialisation

\* Mutant of init_mode1: the hues are drawn and rendered, the sparkle
\* phases are left as they are.
init_mode1_keeps_phases(G0, draws) ==
    LET G   == Called(G0, "init_mode1")
        hue == [i \in Pixels |-> random_float(draws[i])]
    IN  Write([G EXCEPT
            !.base_hue_mode1 = hue,
            !.written = @ \cup Pixels,
            !.np = [i \in Pixels |-> hsv_to_rgb(hue[i], SCALE, MODE1_BASE_V)]])

\* draws[i]: the getrandbits(16) result behind pixel i's random_float().
init_mode1(G0, draws) ==
    LET G   == Called(G0, "init_mode1")
        hue == [i \in Pixels |-> random_float(draws[i])]
    IN  Write([G EXCEPT
            !.base_hue_mode1 = hue,
            !.sparkle_phase = Zeros,
            !.written = @ \cup Pixels,
            !.np = [i \in Pixels |-> hsv_to_rgb(hue[i], SCALE, MODE1_BASE_V)]])

\* The tuple init_mode2 writes for pixel i, in the strip's (G, B, R) order.
Mode2Base(i) ==
    CASE i % 3 = 0 -> <<MODE2_WHITE_VAL, MODE2_WHITE_VAL, MODE2_WHITE_VAL>>
      [] i % 3 = 1 -> <<0, 0, MODE2_RED_VAL>>
      [] OTHER     -> <<MODE2_GREEN_VAL, 0, 0>>

\* Mutant of init_mode2: the hues of mode 1 are cleared along with the
\* sparkle phases.
init_mode2_clears_hues(G0) ==
    LET G == Called(G0, "init_mode2")
    IN  Write([G EXCEPT
            !.written = @ \cup Pixels,
            !.np = [i \in Pixels |-> Mode2Base(i)],
            !.base_hue_mode1 = Zeros,
            !.sparkle_phase2 = Zeros])

init_mode2(G0) ==
    LET G == Called(G0, "init_mode2")
    IN  Write([G EXCEPT
            !.written = @ \cup Pixels,
            !.np = [i \in Pixels |-> Mode2Base(i)],
            !.sparkle_phase2 = Zeros])

\* Mutant of init_mode3: the pixels are rendered from the phases the mode was
\* left with, which are reset only afterwards.
init_mode3_renders_stale(G0) ==
    LET G == Called(G0, "init_mode3")
    IN  Write([G EXCEPT
            !.twinkle_phase3 = Zeros,
            !.written = @ \cup Pixels,
            !.np = [i \in Pixels |->
                      LET val == int255(MODE3_BASE_V
                                        + G.twinkle_phase3[i] * MODE3_BASE_V)
                      IN  <<val, val, val>>]])

init_mode3(G0) ==
    LET G        == Called(G0, "init_mode3")
        base_val == int255(MODE3_BASE_V)
    IN  Write([G EXCEPT
            !.twinkle_phase3 = Zeros,
            !.written = @ \cup Pixels,
            !.np = [i \in Pixels |-> <<base_val, base_val, base_val>>]])

\* Mutant of init_mode4: np.write() comes before the loop that blacks the
\* buffer out.
init_mode4_flushes_first(G0) ==
    LET G == Write(Called(G0, "init_mode4"))
    IN  [G EXCEPT
            !.written = @ \cup Pixels,
            !.np = [i \in Pixels |-> Black]]

init_mode4(G0) ==
    LET G == Called(G0, "init_mode4")
    IN  Write([G EXCEPT
            !.written = @ \cup Pixels,
            !.np = [i \in Pixels |-> Black]])

\* ------------------------------------------------------------ mode updates

\* Mutant of Trigger: the probability test is made per pixel, so that every
\* idle pixel may start in the same frame.
TriggerEveryPixel(phase, r8, r16, prob) ==
    IF r8 < prob
    THEN [i \in Pixels |-> IF phase[i] = 0 THEN 1 ELSE phase[i]]
    ELSE phase

\* Mutant of Trigger: the picked pixel is started whether it is idle or not,
\* so that a running envelope is restarted.
TriggerRestarts(phase, r8, r16, prob) ==
    IF r8 < prob
    THEN [phase EXCEPT ![r16 % NUM_LEDS] = 1]
    ELSE phase

\* The trigger step: r8 = getrandbits(8), r16 = getrandbits(16).
Trigger(phase, r8, r16, prob) ==
    IF r8 < prob
    THEN LET idx == r16 % NUM_LEDS
         IN  IF phase[idx] = 0 THEN [phase EXCEPT ![idx] = 1] ELSE phase
    ELSE phase

\* Mutant of Advance: a running phase moves on by two steps per call.
AdvanceByTwo(phase, steps) ==
    IF phase = 0 THEN 0
    ELSE IF phase + 2 > steps THEN 0 ELSE phase + 2

\* Mutant of Advance: the wrap test is >= instead of >, so that an envelope
\* ends one call early.
AdvanceEarly(phase, steps) ==
    IF phase = 0 THEN 0
    ELSE IF phase + 1 >= steps THEN 0 ELSE phase + 1

\* Mutant of Advance: the wrap test is made before the increment, so that a
\* phase leaves the loop one past the end of the envelope.
AdvanceLate(phase, steps) ==
    IF phase = 0 THEN 0
    ELSE IF phase > steps THEN 0 ELSE phase + 1

\* The phase a pixel leaves the render loop with.
Advance(phase, steps) ==
    IF phase = 0 THEN 0
    ELSE IF phase + 1 > steps THEN 0 ELSE phase + 1

\* The triple update_mode1 writes for a pixel that enters the loop with `phase`.
Render1(hue, phase) ==
    IF phase = 0 \/ phase + 1 > MODE1_SPARKLE_STEPS
    THEN hsv_to_rgb(hue, SCALE, MODE1_BASE_V)
    ELSE LET u == SparkleU[phase]
             s == SCALE - u
             v == MODE1_BASE_V + fmul(MODE1_SPARKLE_V - MODE1_BASE_V, u)
         IN  hsv_to_rgb(hue, s, v)

update_mode1(G0, r8, r16) ==
    LET G     == Called(G0, "update_mode1")
        phase == Trigger(G.sparkle_phase, r8, r16, MODE1_SPARKLE_PROB)
    IN  Write([G EXCEPT
            !.sparkle_phase =
                [i \in Pixels |-> Advance(phase[i], MODE1_SPARKLE_STEPS)],
            !.written = @ \cup Pixels,
            !.np = [i \in Pixels |-> Render1(G.base_hue_mode1[i], phase[i])]])

\* Mutant of Mode2UpdateBase: the base colours are given in (R, G, B) order.
Mode2UpdateBase_rgb(i) ==
    LET pattern == i % 3
    IN  IF pattern = 0
        THEN <<MODE2_WHITE_VAL, MODE2_WHITE_VAL, MODE2_WHITE_VAL>>
        ELSE IF pattern = 1
        THEN <<MODE2_RED_VAL, 0, 0>>
        ELSE <<0, MODE2_GREEN_VAL, 0>>

\* update_mode2's (base_g, base_b, base_r) for pixel i.
Mode2UpdateBase(i) ==
    LET pattern == i % 3
    IN  IF pattern = 0
        THEN <<MODE2_WHITE_VAL, MODE2_WHITE_VAL, MODE2_WHITE_VAL>>
        ELSE IF pattern = 1
        THEN <<0, 0, MODE2_RED_VAL>>
        ELSE <<MODE2_GREEN_VAL, 0, 0>>

\* The triple update_mode2 writes for pixel i entering the loop with `phase`.
Render2(i, phase) ==
    LET base == Mode2UpdateBase(i)
    IN  IF phase = 0 \/ phase + 1 > MODE1_SPARKLE_STEPS
        THEN base
        ELSE LET u == SparkleU[phase]
             IN  <<lerp(base[1], MODE2_SPARKLE_VAL, u),
                   lerp(base[2], MODE2_SPARKLE_VAL, u),
                   lerp(base[3], MODE2_SPARKLE_VAL, u)>>

\* Mutant of update_mode2: the sparkles of mode 2 run on the trigger
\* threshold and the envelope length of the twinkles.
update_mode2_own_dynamics(G0, r8, r16) ==
    LET G     == Called(G0, "update_mode2")
        phase == Trigger(G.sparkle_phase2, r8, r16, MODE3_TWINKLE_PROB)
    IN  Write([G EXCEPT
            !.sparkle_phase2 =
                [i \in Pixels |-> Advance(phase[i], MODE3_TWINKLE_STEPS)],
            !.written = @ \cup Pixels,
            !.np = [i \in Pixels |-> Render2(i, phase[i])]])

update_mode2(G0, r8, r16) ==
    LET G     == Called(G0, "update_mode2")
        phase == Trigger(G.sparkle_phase2, r8, r16, MODE1_SPARKLE_PROB)
    IN  Write([G EXCEPT
            !.sparkle_phase2 =
                [i \in Pixels |-> Advance(phase[i], MODE1_SPARKLE_STEPS)],
            !.written = @ \cup Pixels,
            !.np = [i \in Pixels |-> Render2(i, phase[i])]])

Render3(phase) ==
    LET v == IF phase = 0 \/ phase + 1 > MODE3_TWINKLE_STEPS
             THEN MODE3_BASE_V
             ELSE MODE3_BASE_V
                    + fmul(MODE3_TWINKLE_V - MODE3_BASE_V, TwinkleU[phase])
        val == int255(v)
    IN  <<val, val, val>>

update_mode3(G0, r8, r16) ==
    LET G     == Called(G0, "update_mode3")
        phase == Trigger(G.twinkle_phase3, r8, r16, MODE3_TWINKLE_PROB)
    IN  Write([G EXCEPT
            !.twinkle_phase3 =
                [i \in Pixels |-> Advance(phase[i], MODE3_TWINKLE_STEPS)],
            !.written = @ \cup Pixels,
            !.np = [i \in Pixels |-> Render3(phase[i])]])

\* Mutant of update_mode4: the buffer is blacked out but never written out.
update_mode4_no_write(G0) ==
    LET G == Called(G0, "update_mode4")
    IN  [G EXCEPT
            !.written = @ \cup Pixels,
            !.np = [i \in Pixels |-> Black]]

\* Mutant of update_mode4: going dark also ends the envelopes of the other
\* modes.
update_mode4_clears_phases(G0) ==
    LET G == Called(G0, "update_mode4")
    IN  Write([G EXCEPT
            !.sparkle_phase = Zeros,
            !.sparkle_phase2 = Zeros,
            !.twinkle_phase3 = Zeros,
            !.written = @ \cup Pixels,
            !.np = [i \in Pixels |-> Black]])

update_mode4(G0) ==
    LET G == Called(G0, "update_mode4")
    IN  Write([G EXCEPT
            !.written = @ \cup Pixels,
            !.np = [i \in Pixels |-> Black]])

\* ------------------------------------------------------------ button, mode

\* time.ticks_diff(a, b), for ticks far from the wrap of the tick counter.
ticks_diff(a, b) == a - b

\* Mutant of Debounced: the window is measured from tick 0, not from the
\* last accepted press.
DebouncedSinceBoot(now, last) == ticks_diff(now, 0) > BUTTON_DEBOUNCE_MS

\* check_button's test of the debounce window.
Debounced(now, last) == ticks_diff(now, last) > BUTTON_DEBOUNCE_MS

\* Mutant of check_button: the init call sits outside the debounce test, so
\* that every pressed poll runs the init of the mode it leaves current.
check_button_inits_on_press(G0, now, value, draws) ==
    LET G  == Called(G0, "check_button")
        ok == Debounced(now, G.last_button_time)
        m  == IF ~ok THEN G.current_mode
              ELSE IF G.current_mode = 4 THEN 1 ELSE G.current_mode + 1
        G1 == [G EXCEPT !.current_mode = m,
                        !.last_button_time = IF ok THEN now ELSE @]
    IN  IF value = 0
        THEN CASE m = 1 -> init_mode1(G1, draws)
               [] m = 2 -> init_mode2(G1)
               [] m = 3 -> init_mode3(G1)
               [] OTHER -> init_mode4(G1)
        ELSE G

\* Mutant of check_button: the branch of mode 3 goes back to mode 1, so that
\* mode 4 is skipped.
check_button_skips_off(G0, now, value, draws) ==
    LET G == Called(G0, "check_button")
    IN  IF value = 0 /\ Debounced(now, G.last_button_time)
        THEN LET G1 == CASE G.current_mode = 1 ->
                              init_mode2([G EXCEPT !.current_mode = 2])
                         [] G.current_mode = 2 ->
                              init_mode3([G EXCEPT !.current_mode = 3])
                         [] OTHER ->
                              init_mode1([G EXCEPT !.current_mode = 1], draws)
             IN  [G1 EXCEPT !.last_button_time = now]
        ELSE G

\* Mutant of check_button: every pressed poll restarts the debounce window,
\* accepted or not.
check_button_stamps_every_press(G0, now, value, draws) ==
    LET G == Called(G0, "check_button")
    IN  IF value = 0
        THEN IF Debounced(now, G.last_button_time)
             THEN LET G1 == CASE G.current_mode = 1 ->
                                   init_mode2([G EXCEPT !.current_mode = 2])
                              [] G.current_mode = 2 ->
                                   init_mode3([G EXCEPT !.current_mode = 3])
                              [] G.current_mode = 3 ->
                                   init_mode4([G EXCEPT !.current_mode = 4])
                              [] OTHER ->
                                   init_mode1([G EXCEPT !.current_mode = 1],
                                              draws)
                  IN  [G1 EXCEPT !.last_button_time = now]
             ELSE [G EXCEPT !.last_button_time = now]
        ELSE G

\* value: button.value(), 0 when pressed; draws: the hue draws init_mode1
\* takes when it runs.
check_button(G0, now, value, draws) ==
    LET G == Called(G0, "check_button")
    IN  IF value = 0 /\ Debounced(now, G.last_button_time)
        THEN LET G1 == CASE G.current_mode = 1 ->
                              init_mode2([G EXCEPT !.current_mode = 2])
                         [] G.current_mode = 2 ->
                              init_mode3([G EXCEPT !.current_mode = 3])
                         [] G.current_mode = 3 ->
                              init_mode4([G EXCEPT !.current_mode = 4])
                         [] OTHER ->
                              init_mode1([G EXCEPT !.current_mode = 1], draws)
             IN  [G1 EXCEPT !.last_button_time = now]
        ELSE G

\* Mutant of UpdateOf: the dispatch has no branch for mode 4, which falls
\* into the branch of mode 3.
UpdateOf_without_off(mode) ==
    CASE mode = 1 -> "update_mode1"
      [] mode = 2 -> "update_mode2"
      [] OTHER    -> "update_mode3"

\* main's dispatch: the update it calls for a mode.
UpdateOf(mode) ==
    CASE mode = 1 -> "update_mode1"
      [] mode = 2 -> "update_mode2"
      [] mode = 3 -> "update_mode3"
      [] OTHER    -> "update_mode4"

\* ------------------------------------------------------------ environment

\* getrandbits(16) results behind the hues of one init_mode1 run, per pixel:
\* hue 0 everywhere, or hue 0 and hue 1/3 alternating along the strand.
SameHues == [i \in Pixels |-> 0]
AlternatingHues == [i \in Pixels |-> IF i % 2 = 0 THEN 0 ELSE 21845]
HueDraws == {SameHues, AlternatingHues}

\* getrandbits(8) results: both sides of each trigger threshold.
Rand8 == {MODE1_SPARKLE_PROB - 1, MODE1_SPARKLE_PROB,
          MODE3_TWINKLE_PROB - 1, MODE3_TWINKLE_PROB}

\* getrandbits(16) results behind the pixel index: every index, and one wrap.
Rand16 == 0 .. NUM_LEDS

\* How long an update runs, in ticks: within the frame budget, exactly the
\* frame budget, or far over it.
FastUpdate == FRAME_DELAY - 15
ExactUpdate == FRAME_DELAY
SlowUpdate == BUTTON_DEBOUNCE_MS + 10
UpdateTimes == {FastUpdate, ExactUpdate, SlowUpdate}

\* The interactive environment: the button, the update times and the hues
\* are free, for MaxFrames iterations.
EnvInteractive ==
    [values |-> {0, 1},
     times  |-> UpdateTimes,
     hues   |-> HueDraws,
     trigger |-> TRUE,
     more   |-> frames < MaxFrames]

\* The animation environment: the user holds the button from start-up for
\* up to four polls of slow frames (each later poll accepts the press), then
\* lets go for good; from then on the frames are fast, for AnimFrames
\* iterations.  The hues alternate along the strand, and the trigger draw
\* may pass in every TriggerStride-th iteration.
SelectTicks == 3 * SlowUpdate
EnvAnim ==
    [values |-> IF ticks <= SelectTicks /\ (frames = 0 \/ pressed)
                THEN {0, 1} ELSE {1},
     times  |-> IF ticks < SelectTicks /\ pressed
                THEN {SlowUpdate} ELSE {FastUpdate},
     hues   |-> {AlternatingHues},
     trigger |-> frames % TriggerStride = 0,
     more   |-> frames < 4 + AnimFrames]

\* ---------------------------------------------------------------- actions

\* The configuration as it stands in the source.
ShippedConfig ==
    [steps |-> MODE1_SPARKLE_STEPS, prob |-> MODE1_SPARKLE_PROB]

\* The other programs before their first statement.
ControllerLoaded ==
    [pc |-> "init", debounced |-> <<>>, pixel |-> <<0, 0, 0>>, sent |-> <<>>,
     iterated |-> FALSE]
JoystickLoaded ==
    [pc |-> "setup", running |-> TRUE, last_button_state |-> FALSE,
     last_debounce_time |-> 0, press_start_time |-> -1,
     shutdown_armed |-> FALSE, student_name |-> "", name_timer |-> 0,
     clock |-> 0, shutdown_at |-> -1, oled |-> "",
     osc |-> <<>>, named |-> FALSE, shutdowns |-> 0, raised |-> FALSE,
     cleanups |-> 0, attempted |-> {}, failed |-> {}]
SonarLoaded ==
    [pc |-> "setup", clock |-> 0, boot_ticks |-> 0, t0 |-> 0, start |-> 0,
     waited |-> 0, dist |-> -1, last_pressed |-> 0,
     last_button_time_ms |-> 0, sent |-> <<>>, rounds |-> 0]
LoggerLoaded ==
    [pc |-> "setup", fileNum |-> 0, fileStatus |-> TRUE, fileName |-> -1,
     fileOpen |-> FALSE, counter |-> 0, led |-> FALSE, ledWrite |-> FALSE,
     existing |-> {}, opened |-> <<>>, session |-> <<>>, passes |-> 0,
     switch_on |-> FALSE, wrote |-> -1, did_read |-> FALSE,
     raised |-> FALSE, slept |-> FALSE, flushed |-> FALSE,
     opening |-> FALSE, appended |-> FALSE, after_raise |-> FALSE]
ThermoLoaded ==
    [pc |-> "setup", attempt |-> 0, gets |-> 0, failures |-> 0,
     outcome |-> "none", slept |-> <<>>, cycles |-> 0, resets |-> 0,
     history |-> <<>>]
OrganLoaded ==
    [pc |-> "setup", pixelArray |-> <<>>, pixels |-> <<>>, shown |-> <<>>,
     sources |-> {}, received |-> <<>>]
\* The /student messages that come in, each named by the string it
\* carries; one of them carries the empty string.
Senders == {"Ada", "Bo", ""}
StudentLoaded ==
    [pc |-> "setup", lock |-> "free", student_name |-> <<>>,
     current_name |-> <<>>, handlers |-> [h \in Senders |-> "none"],
     oled |-> <<>>, iteration |-> 0, stored |-> {}, replaced |-> {}]

\* The module globals as the module body leaves them, main not yet called.
Loaded ==
    /\ evaluated = [fn |-> "none", args |-> <<>>, result |-> <<>>]
    /\ controller = ControllerLoaded
    /\ joystick = JoystickLoaded
    /\ sonar = SonarLoaded
    /\ logger = LoggerLoaded
    /\ thermo = ThermoLoaded
    /\ organ = OrganLoaded
    /\ student = StudentLoaded
    /\ current_mode = 1
    /\ last_button_time = 0
    /\ base_hue_mode1 = Zeros
    /\ sparkle_phase = Zeros
    /\ sparkle_phase2 = Zeros
    /\ twinkle_phase3 = Zeros
    /\ np = [i \in Pixels |-> Black]
    /\ strip = [i \in Pixels |-> Black]
    /\ ticks = 0
    /\ pc = "boot"
    /\ start = 0
    /\ pressed = FALSE
    /\ prev_pressed = FALSE
    /\ trans_at = -1
    /\ calls = <<>>
    /\ flushes = 0
    /\ torn = 0
    /\ unflushed = {}
    /\ slept = <<>>
    /\ frames = 0
    /\ picked = -1
    /\ age = [k \in 1 .. 3 |-> Zeros]
    /\ lasted = [k \in 1 .. 3 |-> Zeros]

Init == config = ShippedConfig /\ Loaded

\* Mutant of BootIn: main enters the loop without calling init_mode1.
BootWithoutInit(E) ==
    /\ pc = "boot"
    /\ Store(Globals)
    /\ pc' = "poll"
    /\ slept' = <<>>
    /\ UNCHANGED <<ticks, start, pressed, prev_pressed, trans_at, frames,
                   picked, config, evaluated, devices>>

\* main, before the loop: init_mode1().
BootIn(E) ==
    /\ pc = "boot"
    /\ \E draws \in E.hues : Store(init_mode1(Globals, draws))
    /\ pc' = "poll"
    /\ slept' = <<>>
    /\ UNCHANGED <<ticks, start, pressed, prev_pressed, trans_at, frames,
                   picked, config, evaluated, devices>>

\* The top of an iteration: start = ticks_ms(); check_button().
PollIn(E) ==
    /\ pc = "poll"
    /\ E.more
    /\ \E value \in E.values :
         \E draws \in (IF value = 0 /\ current_mode = 4
                       THEN E.hues ELSE {Zeros}) :
           LET G == check_button(Globals, ticks, value, draws)
           IN  /\ Store(G)
               /\ pressed' = (value = 0)
               /\ trans_at' = IF G.current_mode # current_mode
                              THEN ticks ELSE trans_at
    /\ prev_pressed' = pressed
    /\ start' = ticks
    /\ frames' = frames + 1
    /\ pc' = "update"
    /\ slept' = <<>>
    /\ UNCHANGED <<ticks, picked, config, evaluated, devices>>

\* The trigger draws <<r8, r16>> a frame may take: r16 matters only when r8
\* passes.
Draws(E, prob) ==
    {d \in Rand8 \X Rand16 :
        IF d[1] < prob THEN E.trigger ELSE d[2] = 0}

\* The pixel index a trigger draw picks, if its probability test passes.
Picked(d, prob) == IF d[1] < prob THEN d[2] % NUM_LEDS ELSE -1

\* The rest of an update step: the time it took.
Ran(E) ==
    /\ \E d \in E.times : ticks' = ticks + d
    /\ pc' = "sleep"
    /\ slept' = <<>>
    /\ UNCHANGED <<start, pressed, prev_pressed, trans_at, frames, config,
                   evaluated, devices>>

Update1In(E) ==
    /\ pc = "update"
    /\ UpdateOf(current_mode) = "update_mode1"
    /\ \E d \in Draws(E, MODE1_SPARKLE_PROB) :
         /\ Store(update_mode1(Globals, d[1], d[2]))
         /\ picked' = Picked(d, MODE1_SPARKLE_PROB)
    /\ Ran(E)

Update2In(E) ==
    /\ pc = "update"
    /\ UpdateOf(current_mode) = "update_mode2"
    /\ \E d \in Draws(E, MODE1_SPARKLE_PROB) :
         /\ Store(update_mode2(Globals, d[1], d[2]))
         /\ picked' = Picked(d, MODE1_SPARKLE_PROB)
    /\ Ran(E)

Update3In(E) ==
    /\ pc = "update"
    /\ UpdateOf(current_mode) = "update_mode3"
    /\ \E d \in Draws(E, MODE3_TWINKLE_PROB) :
         /\ Store(update_mode3(Globals, d[1], d[2]))
         /\ picked' = Picked(d, MODE3_TWINKLE_PROB)
    /\ Ran(E)

Update4In(E) ==
    /\ pc = "update"
    /\ UpdateOf(current_mode) = "update_mode4"
    /\ Store(update_mode4(Globals))
    /\ picked' = -1
    /\ Ran(E)

\* Mutant of SleepFor: the test is delay >= 0, so that a frame that used up
\* exactly its budget requests a sleep of 0 ms.
SleepForNonNegative(elapsed) ==
    LET delay == FRAME_DELAY - elapsed
    IN  IF delay >= 0 THEN <<delay>> ELSE <<>>

\* The sleep main requests for a frame that took `elapsed`: none when the
\* frame used up its budget.
SleepFor(elapsed) ==
    LET delay == FRAME_DELAY - elapsed
    IN  IF delay > 0 THEN <<delay>> ELSE <<>>

\* The end of an iteration: elapsed, delay, sleep_ms(delay).
FrameEnd ==
    /\ pc = "sleep"
    /\ slept' = SleepFor(ticks_diff(ticks, start))
    /\ ticks' = ticks + (IF slept' = <<>> THEN 0 ELSE slept'[1])
    /\ pc' = "poll"
    /\ calls' = <<>>
    /\ flushes' = 0
    /\ torn' = 0
    /\ unflushed' = {}
    /\ picked' = -1
    /\ lasted' = [k \in 1 .. 3 |-> Zeros]
    /\ UNCHANGED <<progvars, start, pressed, prev_pressed, trans_at, frames,
                   age, config, evaluated, devices>>

\* The whole program with a free button and free update times.
Boot == BootIn(EnvInteractive)
Poll == PollIn(EnvInteractive)
Update1 == Update1In(EnvInteractive)
Update2 == Update2In(EnvInteractive)
Update3 == Update3In(EnvInteractive)
Update4 == Update4In(EnvInteractive)

Next ==
    \/ Boot
    \/ Poll
    \/ Update1
    \/ Update2
    \/ Update3
    \/ Update4
    \/ FrameEnd

Spec == Init /\ [][Next]_vars

\* The program left to animate in a mode picked at start-up.
AnimBoot == BootIn(EnvAnim)
AnimPoll == PollIn(EnvAnim)
AnimUpdate1 == Update1In(EnvAnim)
AnimUpdate2 == Update2In(EnvAnim)
AnimUpdate3 == Update3In(EnvAnim)
AnimUpdate4 == Update4In(EnvAnim)

NextAnim ==
    \/ AnimBoot
    \/ AnimPoll
    \/ AnimUpdate1
    \/ AnimUpdate2
    \/ AnimUpdate3
    \/ AnimUpdate4
    \/ FrameEnd

SpecAnim == Init /\ [][NextAnim]_vars

\* --------------------------------- mode 1 built with other configurations

\* The constants MODE1_SPARKLE_STEPS and MODE1_SPARKLE_PROB as the source
\* has them, and as an edit of the configuration block may leave them.
Configs ==
    {[steps |-> st, prob |-> pr] :
        st \in {MODE1_SPARKLE_STEPS, 0, -2}, pr \in {MODE1_SPARKLE_PROB, 300}}

\* half = MODE1_SPARKLE_STEPS // 2
HalfOf(steps) == steps \div 2

\* u before shaping, for a phase >= 1 and a half other than 0.
RampWith(phase, steps) ==
    LET half == HalfOf(steps)
    IN  IF half > 0 THEN Ramp(phase, steps)
        ELSE Max(0, Min(SCALE, ((phase - steps) * SCALE) \div (0 - half)))

\* phase / half or (STEPS - phase) / half raises ZeroDivisionError for the
\* first pixel with a running phase when half is 0.
DividesByZero(phase, cfg) ==
    HalfOf(cfg.steps) = 0 /\ \E i \in Pixels : phase[i] # 0

Render1With(hue, phase, cfg) ==
    IF phase = 0 \/ phase + 1 > cfg.steps
    THEN hsv_to_rgb(hue, SCALE, MODE1_BASE_V)
    ELSE LET u == pow15(RampWith(phase, cfg.steps))
             s == SCALE - u
             v == MODE1_BASE_V + fmul(MODE1_SPARKLE_V - MODE1_BASE_V, u)
         IN  hsv_to_rgb(hue, s, v)

\* update_mode1 with the constants of cfg, when no division raises.
update_mode1_with(G0, r8, r16, cfg) ==
    LET G     == Called(G0, "update_mode1")
        phase == Trigger(G.sparkle_phase, r8, r16, cfg.prob)
    IN  Write([G EXCEPT
            !.sparkle_phase = [i \in Pixels |-> Advance(phase[i], cfg.steps)],
            !.written = @ \cup Pixels,
            !.np = [i \in Pixels |->
                      Render1With(G.base_hue_mode1[i], phase[i], cfg)]])

\* update_mode1 up to the ZeroDivisionError: the trigger has been applied,
\* the idle pixels before the first running one have been rendered, and
\* np.write() has not been reached.
update_mode1_raising(G0, r8, r16, cfg) ==
    LET G      == Called(G0, "update_mode1")
        phase  == Trigger(G.sparkle_phase, r8, r16, cfg.prob)
        first  == CHOOSE i \in Pixels :
                     /\ phase[i] # 0
                     /\ \A j \in Pixels : phase[j] # 0 => i <= j
        before == {j \in Pixels : j < first}
    IN  [G EXCEPT
            !.sparkle_phase = phase,
            !.written = @ \cup before,
            !.np = [i \in Pixels |->
                      IF i \in before
                      THEN hsv_to_rgb(G.base_hue_mode1[i], SCALE, MODE1_BASE_V)
                      ELSE G.np[i]]]

\* The button is left alone and every frame is fast.
EnvConfigured ==
    [values |-> {1},
     times  |-> {FastUpdate},
     hues   |-> {AlternatingHues},
     trigger |-> TRUE,
     more   |-> frames < MaxFrames]

InitConfigured == config \in Configs /\ Loaded

ConfiguredBoot == BootIn(EnvConfigured)
ConfiguredPoll == PollIn(EnvConfigured)

ConfiguredUpdate ==
    /\ pc = "update"
    /\ \E d \in Draws(EnvConfigured, config.prob) :
         /\ ~DividesByZero(Trigger(sparkle_phase, d[1], d[2], config.prob),
                           config)
         /\ Store(update_mode1_with(Globals, d[1], d[2], config))
         /\ picked' = Picked(d, config.prob)
    /\ Ran(EnvConfigured)

\* The exception is not caught: main ends.
ConfiguredRaise ==
    /\ pc = "update"
    /\ \E d \in Draws(EnvConfigured, config.prob) :
         /\ DividesByZero(Trigger(sparkle_phase, d[1], d[2], config.prob),
                          config)
         /\ Store(update_mode1_raising(Globals, d[1], d[2], config))
         /\ picked' = Picked(d, config.prob)
    /\ pc' = "error"
    /\ slept' = <<>>
    /\ UNCHANGED <<ticks, start, pressed, prev_pressed, trans_at, frames,
                   config, evaluated, devices>>

NextConfigured ==
    \/ ConfiguredBoot
    \/ ConfiguredPoll
    \/ ConfiguredUpdate
    \/ ConfiguredRaise
    \/ FrameEnd

SpecConfigured == InitConfigured /\ [][NextConfigured]_vars

\* ------------------------------------------- the colour functions alone

\* h + 1.0 as floating-point addition computes it.  The fixed-point grid
\* stands for the floats of [0.5, 1); the floats of [1, 2) are twice as far
\* apart and those of [2, 4) four times, so that the sum is rounded to the
\* nearest of them, a tie going to the one with the even significand.
PlusOne(h) ==
    LET x == h + SCALE
    IN  IF x % 2 = 0 THEN x
        ELSE IF ((x + 1) \div 2) % 2 = 0 THEN x + 1 ELSE x - 1

\* Arguments hsv_to_rgb is evaluated on: every hue of [0, 1] on the grid;
\* no, half and full saturation; the brightness levels of the modes and
\* both ends of [0, 1].
HueArgs == 0 .. SCALE
SaturationArgs == {0, SCALE \div 2, SCALE}
ValueArgs ==
    {0, MODE3_BASE_V, MODE1_BASE_V, MODE3_TWINKLE_V, MODE1_SPARKLE_V, SCALE}

EvalHsv ==
    /\ evaluated.fn = "none"
    /\ \E h \in HueArgs : \E s \in SaturationArgs : \E v \in ValueArgs :
         evaluated' = [fn |-> "hsv_to_rgb", args |-> <<h, s, v>>,
                       result |-> hsv_to_rgb(h, s, v)]
    /\ UNCHANGED <<lightvars, devices>>

\* Arguments of the monochrome path: every brightness of [0, 1] on the
\* grid, at saturation 0, for a few hues.
GreyHueArgs == {0, SCALE \div 3, SCALE}

EvalHsvGrey ==
    /\ evaluated.fn = "none"
    /\ \E h \in GreyHueArgs : \E v \in 0 .. SCALE :
         evaluated' = [fn |-> "hsv_to_rgb", args |-> <<h, 0, v>>,
                       result |-> hsv_to_rgb(h, 0, v)]
    /\ UNCHANGED <<lightvars, devices>>

NextColour ==
    \/ EvalHsv
    \/ EvalHsvGrey

\* ------------------------------------------------- the envelope on its own

\* The envelope value u of one pixel as the update functions compute it:
\* the clamped ramp raised to 1.5 (modes 1 and 2) or 1.3 (mode 3).
Shapes == {"1.5", "1.3"}
EnvelopeU(phase, steps, shape) ==
    IF shape = "1.5" THEN pow15(Ramp(phase, steps))
    ELSE pow13(Ramp(phase, steps))

\* Envelope lengths: the even values up to the longest shipped one.
EvenSteps == {n \in 2 .. MODE3_TWINKLE_STEPS : n % 2 = 0}

EvalEnvelope ==
    /\ evaluated.fn = "none"
    /\ \E steps \in EvenSteps : \E phase \in 1 .. steps : \E shape \in Shapes :
         evaluated' = [fn |-> "u", args |-> <<phase, steps, shape>>,
                       result |-> <<EnvelopeU(phase, steps, shape)>>]
    /\ UNCHANGED <<lightvars, devices>>

\* The triple update_mode2 writes for a pixel index and the phase the
\* pixel enters the call with.
EvalRender2 ==
    /\ evaluated.fn = "none"
    /\ \E i \in 0 .. MaxIndex : \E phase \in 0 .. MODE1_SPARKLE_STEPS :
         evaluated' = [fn |-> "update_mode2: np[i]", args |-> <<i, phase>>,
                       result |-> Render2(i, phase)]
    /\ UNCHANGED <<lightvars, devices>>

NextEnvelope ==
    \/ EvalEnvelope
    \/ EvalRender2
SpecEnvelope == Init /\ [][NextEnvelope]_vars

\* ------------------------------- the phase dynamics of modes 1 and 2

\* update_mode1 and update_mode2 called side by side, each on the phase
\* array its own previous call left (both all 0 at first), with the same
\* draws.
EvalDynamics ==
    /\ evaluated.fn \in {"none", "update_mode1, update_mode2"}
    /\ \E r8 \in Rand8 : \E r16 \in Rand16 :
         LET P1 == IF evaluated.fn = "none" THEN Zeros
                   ELSE evaluated.result[1]
             P2 == IF evaluated.fn = "none" THEN Zeros
                   ELSE evaluated.result[2]
             G1 == update_mode1([Globals EXCEPT !.sparkle_phase = P1],
                                r8, r16)
             G2 == update_mode2([Globals EXCEPT !.sparkle_phase2 = P2],
                                r8, r16)
         IN  evaluated' = [fn |-> "update_mode1, update_mode2",
                           args |-> <<r8, r16>>,
                           result |-> <<G1.sparkle_phase, G2.sparkle_phase2>>]
    /\ UNCHANGED <<lightvars, devices>>

NextDynamics == EvalDynamics
SpecDynamics == Init /\ [][NextDynamics]_vars

\* ------------------------------------- simple-midi-controller/code.py

CC_ON_VALUE == 127
CC_OFF_VALUE == 0

\* (cc_number, color) of the buttons on A0, A1, A2.
BUTTONS ==
    <<[cc |-> 64, color |-> <<127, 0, 0>>],
      [cc |-> 65, color |-> <<0, 127, 0>>],
      [cc |-> 66, color |-> <<0, 0, 127>>]>>
Buttons == 1 .. Len(BUTTONS)

clamp7(v) == Max(0, Min(127, v))

\* The ControlChange message send_cc hands to midi.send.
send_cc(cc_number, value) == [control |-> cc_number, value |-> clamp7(value)]

\* set_pixel_from_pressed: the colours of the pressed buttons, added
\* channel by channel and capped at 127.
RECURSIVE PixelFrom(_, _, _)
PixelFrom(pressed_mask, i, rgb) ==
    IF i > Len(BUTTONS) THEN rgb
    ELSE PixelFrom(pressed_mask, i + 1,
            IF pressed_mask[i]
            THEN [k \in 1 .. 3 |-> Min(127, rgb[k] + BUTTONS[i].color[k])]
            ELSE rgb)
set_pixel_from_pressed(pressed_mask) == PixelFrom(pressed_mask, 1, <<0, 0, 0>>)

\* A Debouncer on a pin that reads raw_value at construction.
Debouncer(raw_value) ==
    [value |-> raw_value, unstable |-> raw_value, changed |-> FALSE]

\* Debouncer.update(): a reading that differs from the last one restarts the
\* interval; a reading that has stayed for the interval and differs from
\* the debounced value becomes the debounced value, and that update alone
\* reports the change.
DebouncerUpdate(b, raw_value, interval_over) ==
    IF raw_value # b.unstable
    THEN [b EXCEPT !.unstable = raw_value, !.changed = FALSE]
    ELSE IF interval_over /\ raw_value # b.value
    THEN [b EXCEPT !.value = raw_value, !.changed = TRUE]
    ELSE [b EXCEPT !.changed = FALSE]

\* Debouncer.fell and Debouncer.rose; the pins are active-low.
fell(b) == b.changed /\ ~b.value
rose(b) == b.changed /\ b.value

\* Mutant of EdgeMessages: the press message is sent while the button is
\* down, not on its edge.
EdgeMessages_while_down(b, cc_num) ==
    IF ~b.value THEN <<send_cc(cc_num, CC_ON_VALUE)>> ELSE <<>>

\* The messages the loop sends for one button: send_cc on a press; a
\* release is only printed (its send_cc is commented out).
EdgeMessages(b, cc_num) ==
    (IF fell(b) THEN <<send_cc(cc_num, CC_ON_VALUE)>> ELSE <<>>)
       \o (IF rose(b) THEN <<>> ELSE <<>>)

\* The module body up to the loop: pixel off, the debouncers built, every
\* CC sent with the off value.
ControllerStart ==
    /\ controller.pc = "init"
    /\ \E pins \in [Buttons -> BOOLEAN] :
         controller' =
            [pc |-> "loop",
             debounced |-> [i \in Buttons |-> Debouncer(pins[i])],
             pixel |-> <<0, 0, 0>>,
             sent |-> [i \in Buttons |-> send_cc(BUTTONS[i].cc, CC_OFF_VALUE)],
             iterated |-> FALSE]
    /\ UNCHANGED <<lightvars, evaluated, joystick, sonar, boards>>

\* One iteration of the loop: update every debouncer, handle the edges in
\* button order, set the pixel from the debounced values.
ControllerLoop ==
    /\ controller.pc = "loop"
    /\ \E pins \in [Buttons -> BOOLEAN] :
       \E interval_over \in [Buttons -> BOOLEAN] :
         LET debounced ==
                [i \in Buttons |->
                    DebouncerUpdate(controller.debounced[i], pins[i],
                                    interval_over[i])]
         IN  controller' =
                [controller EXCEPT
                   !.debounced = debounced,
                   !.sent = EdgeMessages(debounced[1], BUTTONS[1].cc)
                               \o EdgeMessages(debounced[2], BUTTONS[2].cc)
                               \o EdgeMessages(debounced[3], BUTTONS[3].cc),
                   !.pixel = set_pixel_from_pressed(
                                [i \in Buttons |-> ~debounced[i].value]),
                   !.iterated = TRUE]
    /\ UNCHANGED <<lightvars, evaluated, joystick, sonar, boards>>

NextController ==
    \/ ControllerStart
    \/ ControllerLoop
SpecController == Init /\ [][NextController]_vars

\* ----------------------------- joystick-zero2w/sensorDataToOSC-05.py
\* Times are in milliseconds; press_start_time = -1 stands for None.

MaxClock == 5200
DEBOUNCE_DELAY == 50
HOLD_TO_SHUTDOWN == 4000
name_display_time == 2000

\* time.monotonic() when the loop is entered: its reference point is not
\* defined, so it may lie within DEBOUNCE_DELAY of 0.0.
ClockStarts == {20, 1000}

\* read_button: [event, state, time]: the event returned ("True", "False"
\* or "None") and last_button_state, last_debounce_time after the call.
read_button(J, current_state, now) ==
    IF current_state # J.last_button_state
          /\ now - J.last_debounce_time > DEBOUNCE_DELAY
    THEN [event |-> IF current_state THEN "True" ELSE "False",
          state |-> current_state, time |-> now]
    ELSE [event |-> "None", state |-> J.last_button_state,
          time |-> J.last_debounce_time]

\* Mutant of HoldLogic: the hold is timed from the first press of the run
\* and a release does not disarm it.
HoldLogic_from_first_press(J, btn_event, now) ==
    IF btn_event = "True" /\ J.press_start_time = -1
    THEN [press_start_time |-> now, shutdown_armed |-> TRUE]
    ELSE [press_start_time |-> J.press_start_time,
          shutdown_armed |-> J.shutdown_armed]

\* The hold-to-shutdown bookkeeping of an iteration: press_start_time and
\* shutdown_armed after the event of this iteration.
HoldLogic(J, btn_event, now) ==
    IF btn_event = "True"
    THEN [press_start_time |-> now, shutdown_armed |-> TRUE]
    ELSE IF btn_event = "False"
    THEN [press_start_time |-> -1, shutdown_armed |-> FALSE]
    ELSE [press_start_time |-> J.press_start_time,
          shutdown_armed |-> J.shutdown_armed]

\* The test that guards request_shutdown.
HoldElapsed(armed, state, press_start_time, now) ==
    /\ armed
    /\ state
    /\ press_start_time # -1
    /\ now - press_start_time >= HOLD_TO_SHUTDOWN

\* handle_termination, for SIGTERM and SIGINT, at any point after the
\* handlers are installed and before the process is gone.
JoystickSignal ==
    /\ joystick.pc \in {"test", "body", "finally"}
    /\ joystick' = [joystick EXCEPT !.running = FALSE]
    /\ UNCHANGED <<lightvars, evaluated, controller, sonar, boards>>

\* student_handler, on the server thread: the /student message of the run,
\* with a name, arriving during the first iteration.
JoystickStudent ==
    /\ joystick.pc \in {"test", "body"}
    /\ joystick.clock \in ClockStarts
    /\ ~joystick.named
    /\ joystick' = [joystick EXCEPT !.student_name = "Ada", !.named = TRUE]
    /\ UNCHANGED <<lightvars, evaluated, controller, sonar, boards>>

\* The module body up to the try statement.
JoystickStart ==
    /\ joystick.pc = "setup"
    /\ \E t \in ClockStarts :
         joystick' = [joystick EXCEPT !.pc = "test", !.clock = t,
                                      !.oled = "initializing..."]
    /\ UNCHANGED <<lightvars, evaluated, controller, sonar, boards>>

\* while running: the test before each iteration.
JoystickTest ==
    /\ joystick.pc = "test"
    /\ joystick' =
          IF joystick.running
          THEN [joystick EXCEPT !.pc = "body"]
          ELSE [joystick EXCEPT !.pc = "finally"]
    /\ UNCHANGED <<lightvars, evaluated, controller, sonar, boards>>

\* The globals after the button part of an iteration that read the pin as
\* current_state at the clock now.
AfterButton(J, current_state, now) ==
    LET rb   == read_button(J, current_state, now)
        hold == HoldLogic(J, rb.event, now)
    IN  [J EXCEPT !.last_button_state = rb.state,
                  !.last_debounce_time = rb.time,
                  !.press_start_time = hold.press_start_time,
                  !.shutdown_armed = hold.shutdown_armed,
                  !.osc = <<>>]

\* The rest of an iteration that does not shut down: the four OSC
\* messages, the name splash if a name has arrived, the main screen
\* unless the splash is still due, sleep(0.1).
AfterSend(J) ==
    LET shown  == J.student_name # ""
        after  == IF shown THEN J.clock + name_display_time ELSE J.clock
        timer  == IF shown THEN after + name_display_time ELSE J.name_timer
    IN  [J EXCEPT !.osc = <<"/joystick/x", "/joystick/y", "/pot",
                            <<"/button", IF J.last_button_state
                                         THEN 1 ELSE 0>> >>,
                  !.student_name = "",
                  !.name_timer = timer,
                  !.oled = IF after > timer THEN "main"
                           ELSE IF shown THEN "Patch:" ELSE @,
                  !.clock = after + 100,
                  !.pc = "test"]

\* The shutdown branch: the notice, sleep(0.5), request_shutdown() (which
\* reports a failed command for two seconds), running = False, continue.
AfterShutdown(J, returncode) ==
    [J EXCEPT !.shutdowns = @ + 1,
              !.shutdown_at = J.clock,
              !.oled = IF returncode = 0 THEN "Shutting down..."
                       ELSE "shutdown failed",
              !.clock = @ + 500 + (IF returncode = 0 THEN 0 ELSE 2000),
              !.running = FALSE,
              !.pc = "test"]

\* An iteration of the loop that runs to its end.
JoystickBody ==
    /\ joystick.pc = "body"
    /\ joystick.clock <= MaxClock
    /\ \E current_state \in BOOLEAN : \E returncode \in {0, 1} :
         LET J == AfterButton(joystick, current_state, joystick.clock)
         IN  joystick' =
                IF HoldElapsed(J.shutdown_armed, J.last_button_state,
                               J.press_start_time, J.clock)
                THEN AfterShutdown(J, returncode)
                ELSE AfterSend(J)
    /\ UNCHANGED <<lightvars, evaluated, controller, sonar, boards>>

\* An iteration ended by an exception: in the analog reads before the
\* button is read, in the shutdown branch (the display, or the command
\* that cannot be started), or in the sends after the button part.
JoystickRaise ==
    /\ joystick.pc = "body"
    /\ joystick.clock <= MaxClock
    /\ \E current_state \in BOOLEAN : \E early \in BOOLEAN :
         LET J == AfterButton(joystick, current_state, joystick.clock)
         IN  joystick' =
                IF early
                THEN [joystick EXCEPT !.pc = "finally", !.raised = TRUE]
                ELSE IF HoldElapsed(J.shutdown_armed, J.last_button_state,
                                    J.press_start_time, J.clock)
                THEN [J EXCEPT !.pc = "finally", !.raised = TRUE,
                               !.shutdowns = @ + 1,
                               !.shutdown_at = J.clock]
                ELSE [J EXCEPT !.pc = "finally", !.raised = TRUE]
    /\ UNCHANGED <<lightvars, evaluated, controller, sonar, boards>>

\* The calls of cleanup, one try statement per row.
CleanupSteps ==
    <<<<"server.shutdown", "server.server_close">>,
      <<"oled.fill", "oled.show">>,
      <<"button_pin.deinit">>,
      <<"cs.deinit">>>>
CleanupOrder ==
    CleanupSteps[1] \o CleanupSteps[2] \o CleanupSteps[3] \o CleanupSteps[4]
CleanupCalls == {CleanupOrder[k] : k \in 1 .. Len(CleanupOrder)}

\* Mutant of Attempted: the first exception ends the whole cleanup.
Attempted_until_first_raise(failing) ==
    {CleanupOrder[k] :
        k \in {j \in 1 .. Len(CleanupOrder) :
                 \A m \in 1 .. j - 1 : CleanupOrder[m] \notin failing}}

\* The calls cleanup makes when the calls in failing raise: inside a try
\* statement a raising call skips the calls after it; the except clause
\* passes, and the next try statement runs.
Attempted(failing) ==
    {c \in CleanupCalls :
        \A k \in 1 .. Len(CleanupSteps) :
        \A n \in 1 .. Len(CleanupSteps[k]) :
           CleanupSteps[k][n] = c =>
              \A m \in 1 .. n - 1 : CleanupSteps[k][m] \notin failing}

\* The calls of cleanup that raise in a run: none, one, or all of them.
Failures == {{}, CleanupCalls} \cup {{c} : c \in CleanupCalls}

\* finally: cleanup().
JoystickCleanup ==
    /\ joystick.pc = "finally"
    /\ \E failing \in Failures :
         joystick' =
            [joystick EXCEPT
               !.cleanups = @ + 1,
               !.attempted = Attempted(failing),
               !.failed = failing \cap Attempted(failing),
               !.oled = IF {"oled.fill", "oled.show"} \cap failing = {}
                        THEN "" ELSE @,
               !.pc = "exited"]
    /\ UNCHANGED <<lightvars, evaluated, controller, sonar, boards>>

NextJoystick ==
    \/ JoystickStart
    \/ JoystickSignal
    \/ JoystickStudent
    \/ JoystickTest
    \/ JoystickBody
    \/ JoystickRaise
    \/ JoystickCleanup
SpecJoystick == Init /\ [][NextJoystick]_vars

\* ------------------------------------------------ distance-pico-w/main.py
\* sonar.clock is the time since the module was loaded, in microseconds;
\* sonar.dist = -1 stands for None.

MaxRounds == 1
MaxMicros == 400000
BOX_ID == 20
timeout_us == 30000
debounce_delay_ms == 300

\* The tick counters wrap at 2^30.
TICKS_PERIOD == 2 ^ 30
BootTicks == {0, TICKS_PERIOD - 20000}
ticks_us(S) == (S.boot_ticks + S.clock) % TICKS_PERIOD
ticks_ms(S) == ((S.boot_ticks + S.clock) \div 1000) % TICKS_PERIOD

\* time.ticks_diff(a, b): the signed difference of two wrapping readings.
ticks_diff_wrapped(a, b) ==
    ((a - b + TICKS_PERIOD \div 2) % TICKS_PERIOD) - TICKS_PERIOD \div 2

\* Mutant of TimedOut: the waits have no timeout.
TimedOut_never(now, since) == FALSE

\* The test inside both waits of read_distance.
TimedOut(now, since) == ticks_diff_wrapped(now, since) > timeout_us

\* Time that passes between two tests of a wait: one step of the model
\* stands for the polls of that time, during which echo kept its level.
PollSteps == {10000, 16000}

\* (duration / 2.0) / 29.1, in hundredths of a centimetre.
Centimetres(duration) == (duration * 1000) \div 582

\* The module body up to the main loop.
SonarStart ==
    /\ sonar.pc = "setup"
    /\ \E b \in BootTicks :
         sonar' = [sonar EXCEPT !.pc = "call", !.boot_ticks = b]
    /\ UNCHANGED <<lightvars, evaluated, controller, joystick, boards>>

\* read_distance up to the first wait: the trigger pulse, t0 = ticks_us().
SonarTrigger ==
    /\ sonar.pc = "call"
    /\ sonar.rounds < MaxRounds
    /\ LET S == [sonar EXCEPT !.clock = @ + 12]
       IN  sonar' = [S EXCEPT !.pc = "wait_high", !.t0 = ticks_us(S),
                              !.waited = 0, !.sent = <<>>]
    /\ UNCHANGED <<lightvars, evaluated, controller, joystick, boards>>

\* while echo.value() == 0: echo high ends the wait with start =
\* ticks_us(); echo low tests the time since t0 and returns None when it
\* is over.
SonarWaitHigh ==
    /\ sonar.pc = "wait_high"
    /\ sonar.clock <= MaxMicros
    /\ \E value \in {0, 1} : \E d \in PollSteps :
         LET S == [sonar EXCEPT !.clock = @ + d, !.waited = @ + d]
         IN  sonar' =
                IF value = 1
                THEN [sonar EXCEPT !.pc = "wait_low",
                                   !.start = ticks_us(sonar), !.waited = 0]
                ELSE IF TimedOut(ticks_us(S), S.t0)
                THEN [S EXCEPT !.pc = "returned", !.dist = -1]
                ELSE S
    /\ UNCHANGED <<lightvars, evaluated, controller, joystick, boards>>

\* while echo.value() == 1: echo low ends the wait and the duration since
\* start is converted; echo high tests the time since start and returns
\* None when it is over.
SonarWaitLow ==
    /\ sonar.pc = "wait_low"
    /\ sonar.clock <= MaxMicros
    /\ \E value \in {0, 1} : \E d \in PollSteps :
         LET S == [sonar EXCEPT !.clock = @ + d, !.waited = @ + d]
         IN  sonar' =
                IF value = 0
                THEN [sonar EXCEPT
                        !.pc = "returned",
                        !.dist = Centimetres(
                                   ticks_diff_wrapped(ticks_us(sonar),
                                                      sonar.start))]
                ELSE IF TimedOut(ticks_us(S), S.start)
                THEN [S EXCEPT !.pc = "returned", !.dist = -1]
                ELSE S
    /\ UNCHANGED <<lightvars, evaluated, controller, joystick, boards>>

\* The rest of an iteration of the main loop: the pot and the button are
\* read, /boxID, /distanceCM and /pot are sent, /button on a debounced
\* change, the display is updated, sleep(0.1).
SonarSend ==
    /\ sonar.pc = "returned"
    /\ \E raw \in {0, 65535} : \E semantic \in {0, 1} :
         LET vol          == SCALE - (raw * SCALE) \div 65535
             dist_to_send == IF sonar.dist # -1 THEN sonar.dist ELSE 0
             now_ms       == ticks_ms(sonar)
             changed      ==
                /\ semantic # sonar.last_pressed
                /\ ticks_diff_wrapped(now_ms, sonar.last_button_time_ms)
                      > debounce_delay_ms
         IN  sonar' =
                [sonar EXCEPT
                   !.sent = <<<<"/boxID", BOX_ID>>,
                              <<"/distanceCM", dist_to_send>>,
                              <<"/pot", vol>>>>
                            \o (IF changed THEN <<<<"/button", semantic>>>>
                                ELSE <<>>),
                   !.last_button_time_ms = IF changed THEN now_ms ELSE @,
                   !.last_pressed = IF changed THEN semantic ELSE @,
                   !.clock = @ + 100000,
                   !.rounds = @ + 1,
                   !.pc = "call"]
    /\ UNCHANGED <<lightvars, evaluated, controller, joystick, boards>>

NextSonar ==
    \/ SonarStart
    \/ SonarTrigger
    \/ SonarWaitHigh
    \/ SonarWaitLow
    \/ SonarSend
\* The interpreter keeps executing the program.
SpecSonar == Init /\ [][NextSonar]_vars /\ WF_vars(NextSonar)

\* ------------------------------------------------- airQuality/code.py

\* Iterations of the main loop that are followed.
MaxPasses == 6

\* The numbers n of the files aq-<n>.txt on the card at power-up.
InitialFiles == {{}, {0}, {0, 1}, {1}}

\* fileExists(f"aq-{n}.txt"): os.stat succeeds.
fileExists(L, n) == n \in L.existing

\* The inner loop "while fileStatus": fileNum goes up past every existing
\* name, the first free one becomes fileName and fileStatus goes down.
RECURSIVE FreeFrom(_, _)
FreeFrom(L, n) == IF fileExists(L, n) THEN FreeFrom(L, n + 1) ELSE n

ScanNames(L) ==
    IF L.fileStatus
    THEN [L EXCEPT !.fileNum = FreeFrom(L, L.fileNum),
                   !.fileName = FreeFrom(L, L.fileNum),
                   !.fileStatus = FALSE]
    ELSE L

\* What the observations of one iteration are before it runs.
PassBegins(L, switch_value) ==
    [L EXCEPT !.led = TRUE, !.switch_on = ~switch_value, !.wrote = -1,
              !.did_read = FALSE, !.raised = FALSE, !.slept = FALSE,
              !.flushed = FALSE, !.opening = FALSE, !.appended = FALSE,
              !.after_raise = L.raised, !.passes = L.passes + 1]

\* switch.value true (the switch is OFF): an open file is flushed and
\* closed and the counter reset; with no file open the write LED goes out
\* and fileStatus asks for a new scan of the names.
CloseFile_keeps_counter(L) ==
    [L EXCEPT !.fileOpen = FALSE, !.flushed = TRUE, !.slept = TRUE]

CloseFile(L) ==
    [L EXCEPT !.fileOpen = FALSE, !.counter = 0, !.flushed = TRUE,
              !.slept = TRUE]

SwitchOff(L) ==
    IF L.fileOpen
    THEN CloseFile(L)
    ELSE [L EXCEPT !.ledWrite = FALSE, !.slept = TRUE, !.fileStatus = TRUE]

\* open(fileName, "a"): the file is created if it is not there, and is
\* appended to if it is.
OpenFile(L) ==
    [L EXCEPT !.fileOpen = TRUE, !.opening = TRUE,
              !.appended = fileExists(L, L.fileName),
              !.existing = L.existing \cup {L.fileName},
              !.opened = Append(L.opened, L.fileName),
              !.session = <<>>, !.slept = TRUE]

\* The line that begins with str(counter) is written, then counter += 1.
WriteLine(L) ==
    [L EXCEPT !.did_read = TRUE, !.wrote = L.counter,
              !.session = Append(L.session, L.counter),
              !.counter = L.counter + 1, !.ledWrite = TRUE, !.slept = TRUE]

\* pm25.read() raises RuntimeError: "continue".
ReadFailed_counts(L) ==
    [L EXCEPT !.did_read = TRUE, !.raised = TRUE,
              !.counter = L.counter + 1]

ReadFailed(L) ==
    [L EXCEPT !.did_read = TRUE, !.raised = TRUE]

\* switch.value false (the switch is ON).
SwitchOn(L, read_ok) ==
    IF ~L.fileOpen
    THEN OpenFile(L)
    ELSE IF read_ok THEN WriteLine(L) ELSE ReadFailed(L)

LoggerPass(L, switch_value, read_ok) ==
    LET B == ScanNames(PassBegins(L, switch_value))
    IN  IF switch_value THEN SwitchOff(B) ELSE SwitchOn(B, read_ok)

\* Power-up: the card holds the files of earlier runs.
LoggerStart ==
    /\ logger.pc = "setup"
    /\ \E files \in InitialFiles :
          logger' = [logger EXCEPT !.pc = "loop", !.existing = files]
    /\ UNCHANGED <<lightvars, evaluated, controller, joystick, sonar,
                   thermo, organ, student>>

\* One iteration of "while True".
LoggerLoop ==
    /\ logger.pc = "loop"
    /\ logger.passes < MaxPasses
    /\ \E switch_value \in BOOLEAN, read_ok \in BOOLEAN :
          logger' = LoggerPass(logger, switch_value, read_ok)
    /\ UNCHANGED <<lightvars, evaluated, controller, joystick, sonar,
                   thermo, organ, student>>

NextLogger ==
    \/ LoggerStart
    \/ LoggerLoop

SpecLogger == Init /\ [][NextLogger]_vars

\* ------------------------------------- temperature-humidity/pico/code.py

\* Measurement cycles that are followed.
MaxCycles == 4

maxRetries == 3

\* How one attempt can go: requests.get returns and response.close returns,
\* or one of the two raises.
Attempts == {"sent", "get raises", "close raises"}

\* The for loop has run out of attempts: its else clause runs.
Exhausted_after_first(T) == T.attempt >= 1

Exhausted(T) == T.attempt = maxRetries

\* The end of a cycle: what it came to is kept, time.sleep(900) follows.
CycleEnds(T, outcome) ==
    [T EXCEPT !.pc = "cycle", !.outcome = outcome,
              !.history = Append(T.history, outcome),
              !.slept = Append(T.slept, 900)]

\* The module body: the sensor, the network and the session are set up.
ThermoStart ==
    /\ thermo.pc = "setup"
    /\ thermo' = [thermo EXCEPT !.pc = "cycle"]
    /\ UNCHANGED <<lightvars, evaluated, controller, joystick, sonar,
                   logger, organ, student>>

\* The head of a cycle: sht.measurements is read and the URL built; if the
\* read raises, the outer handler sleeps 30 s and the cycle is over.
ThermoMeasure ==
    /\ thermo.pc = "cycle"
    /\ thermo.cycles < MaxCycles
    /\ \E sensor_ok \in BOOLEAN :
          LET T == [thermo EXCEPT !.cycles = thermo.cycles + 1,
                                  !.attempt = 0, !.gets = 0, !.failures = 0,
                                  !.outcome = "none", !.slept = <<>>]
          IN  thermo' =
                IF sensor_ok
                THEN [T EXCEPT !.pc = "get"]
                ELSE CycleEnds([T EXCEPT !.slept = <<30>>], "sensor")
    /\ UNCHANGED <<lightvars, evaluated, controller, joystick, sonar,
                   logger, organ, student>>

\* One pass of "for attempt in range(maxRetries)": break when the GET and
\* the close both return; otherwise sleep 10 s and go on, and when the
\* range is used up the else clause calls microcontroller.reset().
ThermoGet ==
    /\ thermo.pc = "get"
    /\ \E result \in Attempts :
          LET T == [thermo EXCEPT !.gets = thermo.gets + 1]
              F == [T EXCEPT !.failures = T.failures + 1,
                             !.attempt = T.attempt + 1,
                             !.slept = Append(T.slept, 10)]
          IN  thermo' =
                IF result = "sent"
                THEN CycleEnds(T, "sent")
                ELSE IF Exhausted(F)
                     THEN [F EXCEPT !.pc = "reset", !.outcome = "reset",
                                    !.history = Append(F.history, "reset")]
                     ELSE F
    /\ UNCHANGED <<lightvars, evaluated, controller, joystick, sonar,
                   logger, organ, student>>

\* microcontroller.reset(): the board restarts and runs the module body
\* again.
ThermoReset ==
    /\ thermo.pc = "reset"
    /\ thermo' = [ThermoLoaded EXCEPT !.cycles = thermo.cycles,
                                      !.history = thermo.history,
                                      !.resets = thermo.resets + 1]
    /\ UNCHANGED <<lightvars, evaluated, controller, joystick, sonar,
                   logger, organ, student>>

NextThermo ==
    \/ ThermoStart
    \/ ThermoMeasure
    \/ ThermoGet
    \/ ThermoReset

SpecThermo == Init /\ [][NextThermo]_vars

\* ------------------------------------------------ colorOrganStrip/code.py

\* The length of the strip (90 in the source) and the lines that are
\* followed.
numPixels == 3
MaxLines == 4

\* The colours the host sends.
Colours == {<<255, 0, 0>>, <<0, 128, 0>>, <<10, 20, 30>>, <<0, 0, 0>>}

\* The lines the host sends: a label and three numbers.
Lines == {<<0>> \o c : c \in Colours}

\* A list index as Python takes it: a negative one counts from the end.
ListIndex(j) == IF j < 0 THEN j + numPixels ELSE j

\* The loop of movePixels from its pass i on: the three components of
\* pixelArray[numPixels-i-2] are copied to pixelArray[numPixels-i-1].
RECURSIVE movePixelsFrom(_, _)
movePixelsFrom(pixelArray, i) ==
    IF i >= numPixels
    THEN pixelArray
    ELSE LET to == ListIndex(numPixels - i - 1)
             from == ListIndex(numPixels - i - 2)
             red == [pixelArray EXCEPT ![to][1] = pixelArray[from][1]]
             green == [red EXCEPT ![to][2] = red[from][2]]
             blue == [green EXCEPT ![to][3] = green[from][3]]
         IN  movePixelsFrom(blue, i + 1)

\* The same copies made from the head of the list to its tail.
RECURSIVE movePixelsUp(_, _)
movePixelsUp(pixelArray, i) ==
    IF i >= numPixels - 1
    THEN pixelArray
    ELSE movePixelsUp([pixelArray EXCEPT ![i + 1] = pixelArray[i]], i + 1)

movePixels_ascending(pixelArray) == movePixelsUp(pixelArray, 0)

movePixels(pixelArray) == movePixelsFrom(pixelArray, 0)

\* The module body: the strip and a pixelArray of numPixels black pixels.
OrganStart ==
    /\ organ.pc = "setup"
    /\ organ' = [organ EXCEPT
                    !.pc = "loop",
                    !.pixelArray = [y \in 0 .. numPixels - 1 |-> <<0, 0, 0>>],
                    !.pixels = [y \in 0 .. numPixels - 1 |-> <<0, 0, 0>>],
                    !.shown = [y \in 0 .. numPixels - 1 |-> <<0, 0, 0>>]]
    /\ UNCHANGED <<lightvars, evaluated, controller, joystick, sonar,
                   logger, thermo, student>>

\* An iteration that finds a line waiting: the line is split, its second to
\* fourth values are r, g and b, the pixels move up by one, pixelArray[0]
\* takes the colour, and the strip is filled from pixelArray and shown.
OrganLine ==
    /\ organ.pc = "loop"
    /\ Len(organ.received) < MaxLines
    /\ \E values \in Lines :
          LET r == values[2]
              g == values[3]
              b == values[4]
              moved == movePixels(organ.pixelArray)
              filled == [moved EXCEPT ![0] = <<r, g, b>>]
              strip_of == [i \in 0 .. numPixels - 1 |-> filled[i]]
          IN  organ' = [organ EXCEPT
                           !.pixelArray = filled,
                           !.pixels = strip_of,
                           !.shown = strip_of,
                           !.sources = {i : i \in 0 .. numPixels - 1},
                           !.received = Append(organ.received, <<r, g, b>>)]
    /\ UNCHANGED <<lightvars, evaluated, controller, joystick, sonar,
                   logger, thermo, student>>

NextOrgan ==
    \/ OrganStart
    \/ OrganLine

SpecOrgan == Init /\ [][NextOrgan]_vars

\* ------------------- joystick-zero2w/sensorDataToOSC-05.py: student_name
\* student_name is None (<<>>) or a string (<<name>>); name_lock is free or
\* held by the main thread or by the handler thread of one message.

\* Iterations of the main loop that are followed.
MaxHandoffs == 2

\* "with name_lock:" in student_handler: the thread waits for the lock.
HandlerMayEnter_unlocked(S) == TRUE

HandlerMayEnter(S) == S.lock = "free"

\* "if current_name:": neither None nor the empty string.
Truthy(name) == name # <<>> /\ name[1] # ""

\* The names the OLED has shown.
ShownNames == {student.oled[k][2] : k \in 1 .. Len(student.oled)}

\* The module body: the server thread is started.
StudentStart ==
    /\ student.pc = "setup"
    /\ student' = [student EXCEPT !.pc = "top"]
    /\ UNCHANGED <<lightvars, evaluated, controller, joystick, sonar,
                   logger, thermo, organ>>

\* A /student message comes in and the server starts a thread that calls
\* student_handler; without arguments the handler returns at once.
HandlerArrives ==
    /\ student.pc # "setup"
    /\ \E h \in Senders, with_args \in BOOLEAN :
          /\ student.handlers[h] = "none"
          /\ student' = [student EXCEPT !.handlers[h] =
                            IF with_args THEN "arrived" ELSE "returned"]
    /\ UNCHANGED <<lightvars, evaluated, controller, joystick, sonar,
                   logger, thermo, organ>>

\* The handler thread takes name_lock.
HandlerEnters ==
    /\ \E h \in Senders :
          /\ student.handlers[h] = "arrived"
          /\ HandlerMayEnter(student)
          /\ student' = [student EXCEPT !.handlers[h] = "in", !.lock = h]
    /\ UNCHANGED <<lightvars, evaluated, controller, joystick, sonar,
                   logger, thermo, organ>>

\* student_name = str(args[0]), and the lock is released.
HandlerStores ==
    /\ \E h \in Senders :
          /\ student.handlers[h] = "in"
          /\ student' = [student EXCEPT
                            !.handlers[h] = "returned",
                            !.student_name = <<h>>,
                            !.lock = "free",
                            !.stored = student.stored \cup {h},
                            !.replaced = student.replaced \cup
                               {student.student_name[k] :
                                   k \in 1 .. Len(student.student_name)}]
    /\ UNCHANGED <<lightvars, evaluated, controller, joystick, sonar,
                   logger, thermo, organ>>

\* The main loop reaches "with name_lock:" and takes the lock.
MainEnters ==
    /\ student.pc = "top"
    /\ student.iteration < MaxHandoffs
    /\ student.lock = "free"
    /\ student' = [student EXCEPT !.pc = "read", !.lock = "main"]
    /\ UNCHANGED <<lightvars, evaluated, controller, joystick, sonar,
                   logger, thermo, organ>>

\* current_name = student_name
MainReads ==
    /\ student.pc = "read"
    /\ student' = [student EXCEPT !.pc = "clear",
                                  !.current_name = student.student_name]
    /\ UNCHANGED <<lightvars, evaluated, controller, joystick, sonar,
                   logger, thermo, organ>>

\* student_name = None, and the lock is released.
MainClears ==
    /\ student.pc = "clear"
    /\ student' = [student EXCEPT !.pc = "show", !.student_name = <<>>,
                                  !.lock = "free"]
    /\ UNCHANGED <<lightvars, evaluated, controller, joystick, sonar,
                   logger, thermo, organ>>

\* "if current_name: show_name_on_oled(current_name)", and the rest of the
\* iteration.
MainShows ==
    /\ student.pc = "show"
    /\ student' = [student EXCEPT
                      !.pc = "top",
                      !.iteration = student.iteration + 1,
                      !.oled = IF Truthy(student.current_name)
                               THEN Append(student.oled,
                                           <<student.iteration,
                                             student.current_name[1]>>)
                               ELSE student.oled]
    /\ UNCHANGED <<lightvars, evaluated, controller, joystick, sonar,
                   logger, thermo, organ>>

NextStudent ==
    \/ StudentStart
    \/ HandlerArrives
    \/ HandlerEnters
    \/ HandlerStores
    \/ MainEnters
    \/ MainReads
    \/ MainClears
    \/ MainShows

SpecStudent == Init /\ [][NextStudent]_vars

SpecColour == Init /\ [][NextColour]_vars

\* ================================================================= claims

\* The latest step ran the update of mode k (and nothing else).
JustUpdated(k) == calls = <<UpdateName(k)>>

InRange(phase, steps) == \A i \in Pixels : phase[i] \in 0 .. steps

\* C1: at every frame boundary every entry of sparkle_phase and
\* sparkle_phase2 is in [0, 22] and every entry of twinkle_phase3 is in
\* [0, 60]; a pixel whose phase equals STEPS at a frame boundary has phase 0
\* after the next update of its mode.
C1_PhasesInRangeAndWrap ==
    /\ [](/\ InRange(sparkle_phase, MODE1_SPARKLE_STEPS)
          /\ InRange(sparkle_phase2, MODE1_SPARKLE_STEPS)
          /\ InRange(twinkle_phase3, MODE3_TWINKLE_STEPS))
    /\ [][\A k \in 1 .. 3 : \A i \in Pixels :
             (/\ PhaseOf(Globals, k)[i] = StepsOf(k)
              /\ calls' = <<UpdateName(k)>>)
             => PhaseOf(Globals, k)[i]' = 0]_vars

\* A twinkle has reached the last step of its envelope in mode 3.
C1_Witness ==
    /\ JustUpdated(3)
    /\ \E i \in Pixels : twinkle_phase3[i] = MODE3_TWINKLE_STEPS

\* The pixels a step starts in a phase array: idle before, animating after.
Started(old, new) == {i \in Pixels : old[i] = 0 /\ new[i] # 0}

\* C2: one call of update_mode1, update_mode2 or update_mode3 moves at most
\* one pixel from phase 0 to a non-zero phase; every other pixel that was
\* idle is still idle.
C2_AtMostOneStart ==
    [][/\ Cardinality(Started(sparkle_phase, sparkle_phase')) <= 1
       /\ Cardinality(Started(sparkle_phase2, sparkle_phase2')) <= 1
       /\ Cardinality(Started(twinkle_phase3, twinkle_phase3')) <= 1]_vars

\* An update of mode 1 has just started one pixel and left another idle.
C2_Witness ==
    /\ JustUpdated(1)
    /\ \E i, j \in Pixels : age[1][i] = 1 /\ sparkle_phase[j] = 0

\* The cyclic successor of a mode.
Successor(m) == IF m = 4 THEN 1 ELSE m + 1

\* C3: current_mode is always in {1, 2, 3, 4}; every change of it is made by
\* check_button and goes to the cyclic successor; no update or init function
\* changes it.
C3_ModeCycle ==
    /\ [](current_mode \in 1 .. 4)
    /\ [][current_mode' # current_mode =>
            /\ Len(calls') >= 1
            /\ calls'[1] = "check_button"
            /\ current_mode' = Successor(current_mode)]_vars

\* check_button has just taken the mode from 4 back to 1.
C3_Witness ==
    /\ calls = <<"check_button", "init_mode1">>
    /\ current_mode = 1
    /\ trans_at = ticks

\* C4: a mode transition happens only at a poll where the button reads
\* pressed and read released at the previous poll (a falling edge), so that
\* a button held across consecutive polls causes one transition only.
\* (pressed' is the reading of the poll that makes the step, pressed the
\* reading of the poll before it.)
C4_OnlyOnFallingEdge ==
    [][current_mode' # current_mode => (pressed' /\ ~pressed)]_vars

\* C5: any two consecutive mode transitions are more than BUTTON_DEBOUNCE_MS
\* apart in ticks_ms time.
C5_TransitionsApart ==
    [][(current_mode' # current_mode /\ trans_at >= 0) =>
            ticks - trans_at > BUTTON_DEBOUNCE_MS]_vars

\* A pressed poll inside the window after a transition has been turned down.
C5_Witness ==
    /\ pc = "update"
    /\ pressed
    /\ calls = <<"check_button">>
    /\ trans_at >= 0
    /\ ticks > trans_at
    /\ ticks - trans_at <= BUTTON_DEBOUNCE_MS

\* What init_mode1 leaves behind: phases 0, hues drawn, every pixel at its
\* base colour, the strip showing the buffer.
Mode1Initialised ==
    /\ sparkle_phase = Zeros
    /\ \E draws \in HueDraws :
         base_hue_mode1 = [i \in Pixels |-> random_float(draws[i])]
    /\ np = [i \in Pixels |->
                hsv_to_rgb(base_hue_mode1[i], SCALE, MODE1_BASE_V)]
    /\ strip = np
    /\ flushes = 1

\* C6: at process start the active mode is mode 1, and init_mode1 has
\* completed before the first button poll and before the first update.
C6_StartsInMode1 ==
    /\ frames = 0 => pc \in {"boot", "poll"}
    /\ pc = "boot" => (current_mode = 1 /\ calls = <<>>)
    /\ (pc = "poll" /\ frames = 0) =>
            /\ current_mode = 1
            /\ calls = <<"init_mode1">>
            /\ Mode1Initialised

\* main is about to poll the button for the first time.
C6_Witness ==
    /\ pc = "poll"
    /\ frames = 0
    /\ strip = np
    /\ \E i \in Pixels : np[i] # Black

IsInit(fn) == fn \in {"init_mode1", "init_mode2", "init_mode3", "init_mode4"}
IsUpdate(fn) ==
    fn \in {"update_mode1", "update_mode2", "update_mode3", "update_mode4"}

InitName(m) ==
    CASE m = 1 -> "init_mode1"
      [] m = 2 -> "init_mode2"
      [] m = 3 -> "init_mode3"
      [] OTHER -> "init_mode4"

\* C7: each entry into a mode (program start for mode 1, every transition of
\* check_button) invokes that mode's init exactly once, in the step that
\* makes the entry and so before any update of the mode; no init is invoked
\* while the mode stays unchanged.
C7_InitOncePerEntry ==
    [][LET inits == SelectSeq(calls', IsInit)
       IN  /\ IF pc = "boot"
              THEN inits = <<"init_mode1">>
              ELSE IF current_mode' # current_mode
              THEN inits = <<InitName(current_mode')>>
              ELSE inits = <<>>
           /\ \A n \in 1 .. Len(calls') :
                IsUpdate(calls'[n]) =>
                    (inits = <<>> /\ current_mode' = current_mode)]_vars

\* check_button has just entered mode 3 and run init_mode3.
C7_Witness ==
    /\ calls = <<"check_button", "init_mode3">>
    /\ current_mode = 3
    /\ pc = "update"

\* Two outcomes agree on the phase arrays, the base colours, the frame
\* buffer and what the strip shows.
SameLights(A, B) ==
    /\ A.sparkle_phase = B.sparkle_phase
    /\ A.sparkle_phase2 = B.sparkle_phase2
    /\ A.twinkle_phase3 = B.twinkle_phase3
    /\ A.base_hue_mode1 = B.base_hue_mode1
    /\ A.np = B.np
    /\ A.strip = B.strip

\* C8, as claimed: each of init_mode1..init_mode4 is idempotent: from any
\* state, running it twice in a row leaves the phase arrays, the base colours
\* and the frame buffer as running it once does.
C8_InitsIdempotent ==
    /\ \A d1, d2 \in HueDraws :
         SameLights(init_mode1(init_mode1(Globals, d1), d2),
                    init_mode1(Globals, d1))
    /\ SameLights(init_mode2(init_mode2(Globals)), init_mode2(Globals))
    /\ SameLights(init_mode3(init_mode3(Globals)), init_mode3(Globals))
    /\ SameLights(init_mode4(init_mode4(Globals)), init_mode4(Globals))

\* A second run of init_mode1 (`twice`) against the first (`once`) and
\* against a single run with the second run's draws (`single`).
SecondRunOfInit1(once, twice, single) ==
    /\ twice.sparkle_phase = once.sparkle_phase
    /\ twice.sparkle_phase2 = once.sparkle_phase2
    /\ twice.twinkle_phase3 = once.twinkle_phase3
    /\ SameLights(twice, single)

\* C8, amended: init_mode2, init_mode3 and init_mode4 are idempotent;
\* init_mode1 is idempotent on the phase arrays only: its second run draws
\* new hues, and leaves the base hues and the frame buffer that a single run
\* with those draws leaves.
C8_InitsIdempotentButHues ==
    /\ \A d1, d2 \in HueDraws :
         SecondRunOfInit1(init_mode1(Globals, d1),
                          init_mode1(init_mode1(Globals, d1), d2),
                          init_mode1(Globals, d2))
    /\ SameLights(init_mode2(init_mode2(Globals)), init_mode2(Globals))
    /\ SameLights(init_mode3(init_mode3(Globals)), init_mode3(Globals))
    /\ SameLights(init_mode4(init_mode4(Globals)), init_mode4(Globals))

\* Mode 3 is animating: init_mode3 run now would reset a phase and repaint.
C8_Witness ==
    /\ current_mode = 3
    /\ \E i \in Pixels : twinkle_phase3[i] > 0
    /\ init_mode3(Globals).np # np
    /\ init_mode3(Globals).twinkle_phase3 # twinkle_phase3

\* C9: after any call of update_mode4, from any state of the phase arrays,
\* base hues and frame buffer, every frame-buffer entry is (0, 0, 0) and the
\* buffer has been flushed.
C9_Mode4AllBlack ==
    /\ LET G == update_mode4(Globals)
       IN  /\ \A i \in Pixels : G.np[i] = Black
           /\ G.strip = G.np
           /\ G.flushes = 1
    /\ calls = <<"update_mode4">> =>
           /\ \A i \in Pixels : np[i] = Black /\ strip[i] = Black
           /\ flushes = 1

\* update_mode4 has just run over a strand that mode 3 left animating.
C9_Witness ==
    /\ calls = <<"update_mode4">>
    /\ \E i \in Pixels : twinkle_phase3[i] > 0
    /\ \A i \in Pixels : strip[i] = Black

\* C10: a started envelope keeps a non-zero phase through its first
\* STEPS - 1 update calls (the call that triggers it is the first) and is
\* back at phase 0 after call number STEPS: 22 calls of update_mode1 or
\* update_mode2, 60 calls of update_mode3; in mode 1 that last call renders
\* the pixel with its base hue at full saturation and MODE1_BASE_V.
C10_EnvelopeLength ==
    /\ \A k \in 1 .. 3 : \A i \in Pixels :
         /\ age[k][i] < StepsOf(k)
         /\ lasted[k][i] \in {0, StepsOf(k)}
         /\ lasted[k][i] # 0 => PhaseOf(Globals, k)[i] = 0
    /\ \A i \in Pixels :
         lasted[1][i] # 0 =>
            np[i] = hsv_to_rgb(base_hue_mode1[i], SCALE, MODE1_BASE_V)

\* update_mode1 has just ended one sparkle while another pixel is mid-way.
C10_Witness ==
    /\ calls = <<"update_mode1">>
    /\ \E i, j \in Pixels :
         /\ lasted[1][i] = MODE1_SPARKLE_STEPS
         /\ sparkle_phase[j] > 0

\* The outcome of mode k's update in a frame whose probability test fails.
UntriggeredUpdate(k) ==
    CASE k = 1 -> update_mode1(Globals, 255, 0)
      [] k = 2 -> update_mode2(Globals, 255, 0)
      [] OTHER -> update_mode3(Globals, 255, 0)

\* C11: when the trigger of update_mode1, update_mode2 or update_mode3 picks
\* a pixel whose phase is already above 0, the trigger has no effect: the
\* pixel's envelope goes on from where it was, no pixel is started, and the
\* call leaves the phases and the frame exactly as a call without a trigger
\* leaves them (nothing is kept for a later frame).
C11_TriggerOnActiveDropped ==
    [][\A k \in 1 .. 3 :
         (/\ calls' = <<UpdateName(k)>>
          /\ picked' >= 0
          /\ PhaseOf(Globals, k)[picked'] > 0)
         => /\ \A i \in Pixels :
                 LET old == PhaseOf(Globals, k)[i]
                     new == PhaseOf(Globals, k)[i]'
                 IN  new = IF old = 0 \/ old = StepsOf(k) THEN 0 ELSE old + 1
            /\ sparkle_phase' = UntriggeredUpdate(k).sparkle_phase
            /\ sparkle_phase2' = UntriggeredUpdate(k).sparkle_phase2
            /\ twinkle_phase3' = UntriggeredUpdate(k).twinkle_phase3
            /\ np' = UntriggeredUpdate(k).np
            /\ strip' = UntriggeredUpdate(k).strip]_vars

\* The trigger of update_mode1 has just picked a pixel that was already
\* sparkling, while another pixel is idle.
C11_Witness ==
    /\ JustUpdated(1)
    /\ picked >= 0
    /\ age[1][picked] >= 2
    /\ \E j \in Pixels : sparkle_phase[j] = 0

\* The latest step ran one update function and nothing else.
JustUpdatedAny ==
    calls \in {<<"update_mode1">>, <<"update_mode2">>, <<"update_mode3">>,
               <<"update_mode4">>}

\* C12: in one call of a mode's update, a pixel whose phase p is at least 1
\* after the trigger step ends the call with p + 1 when p < STEPS and with 0
\* when p = STEPS; a pixel with phase 0 after the trigger step ends with 0.
\* No update decreases a non-zero phase except by the wrap to 0.
C12_PhaseAdvance ==
    [][/\ \A k \in 1 .. 3 :
            calls' = <<UpdateName(k)>> =>
               \A i \in Pixels :
                  LET old == PhaseOf(Globals, k)[i]
                      p   == IF picked' = i /\ old = 0 THEN 1 ELSE old
                      new == PhaseOf(Globals, k)[i]'
                  IN  /\ p = 0 => new = 0
                      /\ (p >= 1 /\ p < StepsOf(k)) => new = p + 1
                      /\ p = StepsOf(k) => new = 0
       /\ JustUpdatedAny' =>
             \A k \in 1 .. 3 : \A i \in Pixels :
                LET old == PhaseOf(Globals, k)[i]
                    new == PhaseOf(Globals, k)[i]'
                IN  new >= old \/ (new = 0 /\ old = StepsOf(k))]_vars

\* One call of update_mode1 has wrapped a finished sparkle to 0 and started
\* the pixel its trigger picked.
C12_Witness ==
    /\ JustUpdated(1)
    /\ picked >= 0
    /\ age[1][picked] = 1
    /\ sparkle_phase[picked] = 2
    /\ \E i \in Pixels : lasted[1][i] = MODE1_SPARKLE_STEPS

\* The function named fn was invoked by the latest step.
InvokedNow(fn) == \E n \in 1 .. Len(calls) : calls[n] = fn

\* The white / red / green base tuples of mode 2 by index mod 3, in the
\* strip's (G, B, R) order.
ResidueColour == <<<<40, 40, 40>>, <<0, 0, 25>>, <<25, 0, 0>>>>

\* C13: base_hue_mode1 is written only by init_mode1 (no update and no other
\* init changes it); in mode 2 the base colour of pixel i depends only on
\* i mod 3, never on earlier frames: whenever init_mode2 or update_mode2 has
\* left pixel i idle, its buffer entry is the colour of i mod 3.
C13_BaseColoursFixed ==
    /\ [][base_hue_mode1' # base_hue_mode1 => InvokedNow("init_mode1")']_vars
    /\ []((InvokedNow("init_mode2") \/ InvokedNow("update_mode2")) =>
            \A i \in Pixels :
               sparkle_phase2[i] = 0 => np[i] = ResidueColour[(i % 3) + 1])
    /\ [](\A i \in 0 .. MaxIndex :
            /\ Mode2Base(i) = Mode2Base(i % 3)
            /\ Mode2UpdateBase(i) = Mode2UpdateBase(i % 3))

\* update_mode2 has just run with one pixel sparkling and another idle at
\* its base colour, the hues of mode 1 still in place.
C13_Witness ==
    /\ JustUpdated(2)
    /\ \E i \in Pixels : base_hue_mode1[i] # 0
    /\ \E i, j \in Pixels :
         /\ sparkle_phase2[i] = 0
         /\ np[i] = ResidueColour[(i % 3) + 1]
         /\ sparkle_phase2[j] > 0
         /\ np[j] # ResidueColour[(j % 3) + 1]

\* The init and update functions the latest step invoked.
PaintCalls == {n \in 1 .. Len(calls) : calls[n] # "check_button"}

\* C14: every call of an update_modeK or init_modeK function writes all N
\* frame-buffer entries and then calls np.write() exactly once, after the
\* last pixel write of the call; no flush is issued while only part of the
\* frame has been written.
C14_FlushOncePerCallAfterAllPixels ==
    /\ flushes = Cardinality(PaintCalls)
    /\ torn = 0
    /\ unflushed = {}
    /\ strip = np

\* A poll has changed the mode and run its init: one call, one flush of a
\* fully written frame that differs from the one shown before.
C14_Witness ==
    /\ calls = <<"check_button", "init_mode4">>
    /\ flushes = 1
    /\ \E i \in Pixels : twinkle_phase3[i] > 0

\* The update function that belongs to each mode.
UpdateFunctions ==
    <<"update_mode1", "update_mode2", "update_mode3", "update_mode4">>

\* C15: every iteration of the main loop polls the button first and then
\* invokes exactly one update function, the one of the mode that is current
\* after the poll, whether or not the frame before overran its budget.
C15_PollThenOneUpdate ==
    [][/\ pc = "boot" => pc' = "poll"
       /\ pc = "poll" =>
             /\ pc' = "update"
             /\ calls'[1] = "check_button"
             /\ \A n \in 1 .. Len(calls') : ~IsUpdate(calls'[n])
       /\ pc = "update" =>
             /\ pc' = "sleep"
             /\ calls' = <<UpdateFunctions[current_mode]>>
             /\ current_mode' = current_mode
       /\ pc = "sleep" =>
             /\ pc' = "poll"
             /\ calls' = <<>>]_vars

\* The second iteration has polled, changed to mode 2 and run update_mode2,
\* after a first frame that overran its budget (it lasted SlowUpdate, so no
\* sleep was requested).
C15_Witness ==
    /\ frames = 2
    /\ start = SlowUpdate
    /\ pc = "sleep"
    /\ calls = <<UpdateFunctions[current_mode]>>
    /\ current_mode = 2

\* C16: the end-of-frame sleep is requested only when FRAME_DELAY minus the
\* elapsed frame time is positive, and then for at most FRAME_DELAY (25 ms);
\* when the frame took FRAME_DELAY or longer no sleep is requested.  No
\* other step of the loop sleeps.
C16_SleepOnlyRemainder ==
    [][/\ pc # "sleep" => slept' = <<>>
       /\ pc = "sleep" =>
             LET elapsed == ticks - start
             IN  /\ Len(slept') <= 1
                 /\ slept' # <<>> =>
                       /\ FRAME_DELAY - elapsed > 0
                       /\ slept'[1] = FRAME_DELAY - elapsed
                       /\ slept'[1] >= 1
                       /\ slept'[1] <= 1000 \div 40
                 /\ elapsed >= 1000 \div 40 => slept' = <<>>
                 /\ elapsed < 1000 \div 40 => slept' # <<>>]_vars

\* The second frame took less than its budget and has just requested the
\* sleep of the remainder.
C16_Witness ==
    /\ pc = "poll"
    /\ frames = 2
    /\ slept = <<FRAME_DELAY - FastUpdate>>

\* A configuration the specification calls malformed.
Malformed(cfg) == cfg.steps <= 0 \/ cfg.prob \notin 0 .. 255

\* C17, as claimed: a malformed configuration (an envelope length of 0 or
\* less, a trigger probability outside 0..255) is rejected at
\* initialization: the program is in an error state before the frame loop
\* starts and never runs an update with such constants.
C17_MalformedConfigRejected ==
    Malformed(config) =>
        /\ pc \in {"boot", "error"}
        /\ frames = 0
        /\ \A n \in 1 .. Len(calls) : ~IsUpdate(calls[n])

\* C18: on every entry into mode 1, 2 or 3, when the mode's init returns,
\* every phase counter of that mode is 0 and every pixel of the flushed
\* frame shows its base appearance: hsv(hue_i, 1.0, MODE1_BASE_V) in mode 1,
\* the colour of the index mod 3 in mode 2, and int(MODE3_BASE_V * 255) = 2
\* on all channels in mode 3.
C18_InitLeavesBaseFrame ==
    /\ InvokedNow("init_mode1") =>
          /\ current_mode = 1
          /\ sparkle_phase = Zeros
          /\ \A i \in Pixels :
                strip[i] = hsv_to_rgb(base_hue_mode1[i], SCALE, MODE1_BASE_V)
    /\ InvokedNow("init_mode2") =>
          /\ current_mode = 2
          /\ sparkle_phase2 = Zeros
          /\ \A i \in Pixels : strip[i] = ResidueColour[(i % 3) + 1]
    /\ InvokedNow("init_mode3") =>
          /\ current_mode = 3
          /\ twinkle_phase3 = Zeros
          /\ \A i \in Pixels : strip[i] = <<2, 2, 2>>

\* Mode 1 has just been entered again from mode 4, with a sparkle of mode 2
\* still where the earlier visit to mode 2 left it.
C18_Witness ==
    /\ calls = <<"check_button", "init_mode1">>
    /\ trans_at = ticks
    /\ frames > 1
    /\ \E i \in Pixels : sparkle_phase2[i] > 0
    /\ \E i \in Pixels : base_hue_mode1[i] # 0

\* C19: in mode 2 the base colour of pixel i is white when i mod 3 = 0, red
\* when i mod 3 = 1 and green when i mod 3 = 2, and init_mode2 and
\* update_mode2 agree on it: for a pixel with phase 0, update_mode2 writes
\* the tuple init_mode2 wrote for that index, (40, 40, 40), (0, 0, 25) or
\* (25, 0, 0) in the strip's (G, B, R) order.
C19_Mode2BaseAgrees ==
    /\ [](\A i \in 0 .. MaxIndex :
            /\ Mode2Base(i) = ResidueColour[(i % 3) + 1]
            /\ Render2(i, 0) = Mode2Base(i))
    /\ [][calls' = <<"update_mode2">> =>
            \A i \in Pixels :
               (sparkle_phase2[i] = 0 /\ sparkle_phase2'[i] = 0) =>
                  /\ np'[i] = init_mode2(Globals).np[i]
                  /\ np'[i] = np[i]]_vars

\* update_mode2 has just run with every pixel idle: white on pixel 0, red
\* on pixel 1, as init_mode2 left them.
C19_Witness ==
    /\ JustUpdated(2)
    /\ sparkle_phase2 = Zeros
    /\ picked = -1
    /\ np[0] = <<40, 40, 40>>
    /\ np[1] = <<0, 0, 25>>

\* The latest evaluation is hsv_to_rgb(h, 1.0, v) for a hue of [0, 1].
FullSaturationEval ==
    /\ evaluated.fn = "hsv_to_rgb"
    /\ evaluated.args[2] = SCALE

\* hsv_to_rgb(h + 1.0, 1.0, v) for the arguments of the latest evaluation.
OneTurnOn ==
    hsv_to_rgb(PlusOne(evaluated.args[1]), SCALE, evaluated.args[3])

Distance(a, b) == IF a >= b THEN a - b ELSE b - a

GreyEval ==
    /\ evaluated.fn = "hsv_to_rgb"
    /\ evaluated.args[2] = 0

\* round(x) of Python for x = n / SCALE >= 0: to the nearest integer, a tie
\* to the even one.
RoundHalfEven(n) ==
    LET lo   == n \div SCALE
        rest == n - lo * SCALE
    IN  IF 2 * rest < SCALE THEN lo
        ELSE IF 2 * rest > SCALE THEN lo + 1
        ELSE IF lo % 2 = 0 THEN lo ELSE lo + 1

\* C21, as claimed: for every h and every v in [0, 1], hsv_to_rgb(h, 0.0, v)
\* returns v * 255 rounded to the nearest integer on all three channels.
C21_GreyIsRounded ==
    GreyEval =>
       LET val == RoundHalfEven(evaluated.args[3] * 255)
       IN  evaluated.result = <<val, val, val>>

\* C21, amended: hsv_to_rgb(h, 0.0, v) returns v * 255 truncated to an
\* integer on all three channels: the largest integer not above v * 255,
\* which is round(v * 255) only where the fraction of v * 255 is below one
\* half (or is exactly one half next to an even integer).
C21_GreyIsTruncated ==
    GreyEval =>
       LET x   == evaluated.args[3] * 255
           val == evaluated.result[1]
       IN  /\ evaluated.result = <<val, val, val>>
           /\ val * SCALE <= x
           /\ x < (val + 1) * SCALE
           /\ (val = RoundHalfEven(x)) <=>
                 (\/ 2 * (x - val * SCALE) < SCALE
                  \/ (2 * (x - val * SCALE) = SCALE /\ val % 2 = 0))

\* The twinkle peak level 0.5 at saturation 0: 127.5 is truncated to 127
\* where rounding gives 128.
C21_Witness ==
    /\ GreyEval
    /\ evaluated.args[1] > 0
    /\ evaluated.args[3] = MODE3_TWINKLE_V
    /\ evaluated.result = <<127, 127, 127>>
    /\ RoundHalfEven(evaluated.args[3] * 255) = 128

\* A valid 8-bit channel triple.
Channels(rgb) ==
    /\ Len(rgb) = 3
    /\ \A k \in 1 .. 3 : rgb[k] \in 0 .. 255

EnvelopeEval == evaluated.fn = "u"

\* C23: the envelope progress u is symmetric about the midpoint: for even
\* STEPS and every phase p with 1 <= p < STEPS the value for p equals the
\* value for STEPS - p; with STEPS = 22 the value for phase 1 equals the
\* value for phase 21.
C23_EnvelopeSymmetric ==
    EnvelopeEval =>
       LET phase == evaluated.args[1]
           steps == evaluated.args[2]
           shape == evaluated.args[3]
       IN  phase < steps =>
              evaluated.result[1] = EnvelopeU(steps - phase, steps, shape)

\* Phase 21 of the shipped sparkle: a value strictly between 0 and 1 that
\* is the value of phase 1.
C23_Witness ==
    /\ EnvelopeEval
    /\ evaluated.args = <<21, MODE1_SPARKLE_STEPS, "1.5">>
    /\ evaluated.result[1] = SparkleU[1]
    /\ evaluated.result[1] > 0
    /\ evaluated.result[1] < SparkleU[2]

\* Messages of the latest step of the controller with this CC number and
\* value.
SentCC(cc_num, value) ==
    {k \in 1 .. Len(controller.sent) :
        controller.sent[k] = [control |-> cc_num, value |-> value]}

\* C24, as claimed: each debounced release of a button (rose edge) sends
\* one MIDI Control Change with that button's CC number and value 0.
C24_ReleaseSendsOff ==
    controller.iterated =>
       \A i \in Buttons :
          rose(controller.debounced[i]) =>
             Cardinality(SentCC(BUTTONS[i].cc, CC_OFF_VALUE)) = 1

\* A loop iteration in which a button's release was debounced.
C24_Witness ==
    /\ controller.iterated
    /\ rose(controller.debounced[1])
    /\ controller.sent = <<>>

\* C25: each debounced press of a button (fell edge) sends exactly one
\* MIDI Control Change with that button's own CC number and value 127; no
\* CC with value 127 is sent without a press edge of that button; at
\* startup one CC with value 0 is sent for each of the three CC numbers,
\* before any iteration of the loop.
C25_PressSendsOn ==
    /\ controller.iterated =>
          /\ \A i \in Buttons :
                Cardinality(SentCC(BUTTONS[i].cc, CC_ON_VALUE)) =
                   IF fell(controller.debounced[i]) THEN 1 ELSE 0
          /\ \A k \in 1 .. Len(controller.sent) :
                /\ controller.sent[k].value = CC_ON_VALUE
                /\ controller.sent[k].control \in {64, 65, 66}
    /\ controller.pc = "init" =>
          ~controller.iterated /\ controller.sent = <<>>
    /\ controller.pc = "loop" /\ ~controller.iterated =>
          controller.sent = <<[control |-> 64, value |-> 0],
                              [control |-> 65, value |-> 0],
                              [control |-> 66, value |-> 0]>>

\* A0 and A2 pressed in the same iteration while A1 is held down.
C25_Witness ==
    /\ controller.iterated
    /\ fell(controller.debounced[1])
    /\ fell(controller.debounced[3])
    /\ ~controller.debounced[2].value
    /\ ~controller.debounced[2].changed
    /\ controller.sent = <<[control |-> 64, value |-> 127],
                           [control |-> 66, value |-> 127]>>
    /\ controller.pixel = <<127, 127, 127>>

\* C26: request_shutdown is invoked only when the debounced button state
\* has been pressed, with no debounced release in between, for at least
\* HOLD_TO_SHUTDOWN since the debounced press event (the latest change
\* read_button accepted); a release disarms the shutdown; request_shutdown
\* is invoked at most once per run, the loop ending right after it.
C26_ShutdownOnlyAfterHold ==
    /\ joystick.shutdowns <= 1
    /\ joystick.shutdowns = 1 =>
          /\ joystick.last_button_state
          /\ joystick.shutdown_at - joystick.last_debounce_time
                >= HOLD_TO_SHUTDOWN
          /\ ~joystick.running \/ joystick.pc \in {"finally", "exited"}
    /\ ~joystick.last_button_state =>
          /\ ~joystick.shutdown_armed
          /\ joystick.press_start_time = -1

\* A shutdown requested exactly HOLD_TO_SHUTDOWN after a press that
\* followed an earlier press and release.
C26_Witness ==
    /\ joystick.shutdowns = 1
    /\ joystick.last_debounce_time >= 1200
    /\ joystick.shutdown_at = joystick.last_debounce_time + HOLD_TO_SHUTDOWN
    /\ ~joystick.running
    /\ ~joystick.raised

\* cleanup has run once exactly in the states after the finally clause, and
\* every one of its try statements was entered.
CleanedUpOnce ==
    /\ joystick.cleanups <= 1
    /\ joystick.cleanups = 1 <=> joystick.pc = "exited"
    /\ joystick.pc = "exited" =>
          \A k \in 1 .. Len(CleanupSteps) :
             CleanupSteps[k][1] \in joystick.attempted

\* The loop is left only for the finally clause, and no iteration starts
\* once running is False.
LeavesThroughFinally ==
    /\ joystick.pc \in {"test", "body"} /\ joystick'.pc \notin {"test", "body"}
          => joystick'.pc = "finally"
    /\ joystick.pc = "finally" /\ joystick'.pc # "finally"
          => joystick'.pc = "exited" /\ joystick'.cleanups = 1
    /\ ~joystick.running
          => ~(joystick.pc = "test" /\ joystick'.pc = "body")
    /\ ~joystick.running => ~joystick'.running

\* C27: cleanup() runs exactly once on every exit path of the main loop (a
\* signal, hold-to-shutdown, an exception in the loop body); once a signal
\* has set running to False the loop starts no new iteration; every step
\* (try statement) of cleanup is attempted even when an earlier one raises.
C27_CleanupOnEveryExit == [](CleanedUpOnce) /\ [][LeavesThroughFinally]_vars

\* An exit by an exception in the loop body, with server.shutdown raising in
\* cleanup: the later steps are attempted all the same.
C27_Witness ==
    /\ joystick.pc = "exited"
    /\ joystick.raised
    /\ joystick.running
    /\ joystick.failed = {"server.shutdown"}
    /\ joystick.attempted =
          {"server.shutdown", "oled.fill", "oled.show", "button_pin.deinit",
           "cs.deinit"}

\* read_distance is in one of its two waits.
Waiting == sonar.pc \in {"wait_high", "wait_low"}

\* While a wait goes on no more than timeout_us has passed in it; None is
\* returned only after more than timeout_us in the wait that gave up; a
\* main loop iteration whose read_distance returned None sent 0.0.
TimeoutHonoured ==
    /\ Waiting => sonar.waited <= timeout_us
    /\ sonar.pc = "returned" /\ sonar.dist = -1 =>
          sonar.waited > timeout_us
    /\ sonar.pc = "call" /\ sonar.rounds > 0 /\ sonar.dist = -1 =>
          sonar.sent[2] = <<"/distanceCM", 0>>

\* C28: read_distance always terminates: if the echo line never goes high,
\* or never goes low again, it returns None once more than timeout_us has
\* elapsed in that wait, and the main loop then sends 0.0 as the
\* /distanceCM value instead of blocking.
C28_ReadDistanceTerminates ==
    /\ [](TimeoutHonoured)
    /\ Waiting ~> sonar.pc = "returned"
    /\ sonar.pc = "returned" ~> (sonar.pc = "call" /\ Len(sonar.sent) >= 3)

\* An iteration in which echo went high and never low again, across the
\* wrap of the tick counter: 0.0 was sent.
C28_Witness ==
    /\ sonar.pc = "call"
    /\ sonar.rounds = 1
    /\ sonar.dist = -1
    /\ sonar.boot_ticks # 0
    /\ sonar.start > sonar.t0
    /\ sonar.waited > timeout_us
    /\ sonar.sent[2] = <<"/distanceCM", 0>>

\* The latest evaluation is a call of update_mode1 and one of update_mode2
\* on the phase arrays their previous calls left, with the same draws.
DynamicsEval == evaluated.fn = "update_mode1, update_mode2"

\* C29: the sparkle phase dynamics of mode 2 are those of mode 1: fed the
\* same sequence of random draws from the same phase array, update_mode2
\* and update_mode1 leave equal phase arrays after every call.
C29_Mode2DynamicsAreMode1s ==
    DynamicsEval => evaluated.result[1] = evaluated.result[2]

\* After some calls: one sparkle in its last step, and one that the latest
\* call started.
C29_Witness ==
    /\ DynamicsEval
    /\ evaluated.args[1] < MODE1_SPARKLE_PROB
    /\ \E i, j \in Pixels :
          /\ evaluated.result[2][i] = MODE1_SPARKLE_STEPS
          /\ evaluated.result[2][j] = 2
          /\ evaluated.args[2] % NUM_LEDS = j

\* The latest evaluation is the triple update_mode2 writes for a pixel.
Render2Eval == evaluated.fn = "update_mode2: np[i]"

\* The peak of mode 2: full sparkle white on all three channels.
Mode2Peak == <<MODE2_SPARKLE_VAL, MODE2_SPARKLE_VAL, MODE2_SPARKLE_VAL>>

\* C30: for every phase in 1..STEPS the envelope progress u lies in [0, 1],
\* equals 1 exactly at phase = STEPS // 2 and equals 0 at phase = STEPS; so
\* of the phases of an envelope exactly one, STEPS // 2, is rendered at the
\* peak (in mode 2 all three channels equal MODE2_SPARKLE_VAL), and the
\* last one, STEPS, is rendered as the base colour.
C30_PeakOnceBaseLast ==
    /\ EnvelopeEval =>
          LET phase == evaluated.args[1]
              steps == evaluated.args[2]
              u     == evaluated.result[1]
          IN  /\ u \in 0 .. SCALE
              /\ u = SCALE <=> phase = steps \div 2
              /\ phase = steps => u = 0
    /\ Render2Eval =>
          LET i     == evaluated.args[1]
              phase == evaluated.args[2]
          IN  /\ evaluated.result = Mode2Peak
                    <=> phase = MODE1_SPARKLE_STEPS \div 2
              /\ phase = MODE1_SPARKLE_STEPS =>
                    evaluated.result = Mode2UpdateBase(i)
              /\ \A k \in 1 .. 3 :
                    /\ evaluated.result[k] >= Mode2UpdateBase(i)[k]
                    /\ evaluated.result[k] <= MODE2_SPARKLE_VAL

\* A red pixel of mode 2 at phase 11 of 22: white at MODE2_SPARKLE_VAL.
C30_Witness ==
    /\ Render2Eval
    /\ evaluated.args = <<1, MODE1_SPARKLE_STEPS \div 2>>
    /\ SparkleU[evaluated.args[2]] = SCALE
    /\ Mode2UpdateBase(1) = <<0, 0, MODE2_RED_VAL>>
    /\ evaluated.result = <<220, 220, 220>>

\* The phase arrays of the modes other than k are as they were.
OthersKept(k) ==
    \A j \in (1 .. 3) \ {k} : PhaseOf(Globals, j)' = PhaseOf(Globals, j)

\* C31: each update function changes only its own mode's phase array;
\* update_mode4 and init_mode4 leave all three phase arrays and
\* base_hue_mode1 unchanged; the phase array of a mode changes only in a
\* step that invokes that mode's update or init, so the envelope of a mode
\* that is not active stays frozen until the mode's init zeroes it.
C31_UpdatesKeepOtherPhases ==
    [][/\ \A k \in 1 .. 3 :
            /\ InvokedNow(UpdateName(k))' => OthersKept(k)
            /\ PhaseOf(Globals, k)' # PhaseOf(Globals, k) =>
                  \/ InvokedNow(UpdateName(k))'
                  \/ InvokedNow(InitName(k))' /\ PhaseOf(Globals, k)' = Zeros
       /\ (InvokedNow("update_mode4")' \/ InvokedNow("init_mode4")') =>
             /\ OthersKept(4)
             /\ base_hue_mode1' = base_hue_mode1]_vars

\* Mode 4 has just been updated while a sparkle of mode 1 and one of mode 2
\* are still where the mode changes left them.
C31_Witness ==
    /\ calls = <<"update_mode4">>
    /\ current_mode = 4
    /\ \E i \in Pixels : sparkle_phase[i] > 0
    /\ \E i \in Pixels : sparkle_phase2[i] > 0

\* C32: a call of check_button at which the button reads released, or reads
\* pressed with no more than BUTTON_DEBOUNCE_MS passed since
\* last_button_time, leaves current_mode, last_button_time, the phase
\* arrays, the base hues and the frame buffer unchanged and invokes no
\* init; last_button_time changes only in a call that changes the mode.
C32_RejectedPollChangesNothing ==
    [][/\ (/\ pc = "poll"
           /\ \/ ~pressed'
              \/ ticks - last_button_time <= BUTTON_DEBOUNCE_MS)
          => /\ progvars' = progvars
             /\ calls' = <<"check_button">>
       /\ last_button_time' # last_button_time =>
             /\ pc = "poll"
             /\ current_mode' # current_mode
             /\ last_button_time' = ticks]_vars

\* A pressed poll inside the debounce window of an accepted press, with a
\* sparkle running: nothing but the call itself has happened.
C32_Witness ==
    /\ pc = "update"
    /\ calls = <<"check_button">>
    /\ pressed
    /\ last_button_time > 0
    /\ start - last_button_time \in 1 .. BUTTON_DEBOUNCE_MS
    /\ current_mode = 2
    /\ \E i \in Pixels : sparkle_phase2[i] > 0


\* ------------------------------------------------- airQuality/code.py

\* C33: every time the log file is opened, the name chosen is one no file
\* had before this logging session, so that no session appends to the file
\* of an earlier one: no open(fileName, "a") finds the file there.
C33_OpensOnlyNewFiles == ~logger.appended

\* The switch is ON, ON, OFF for one iteration, ON: the second session has
\* opened the name of the first.
C33_Witness ==
    /\ logger.appended
    /\ logger.opened = <<0, 0>>
    /\ logger.passes = 4

\* The lines of the session that is open are numbered 0, 1, 2, ...
SessionNumbered ==
    \A k \in 1 .. Len(logger.session) : logger.session[k] = k - 1

C35_FailedReadSkipsTheLine ==
    /\ [](logger.after_raise /\ logger.switch_on => logger.did_read)
    /\ [][logger.pc = "loop" /\ logger'.raised =>
            /\ logger.fileOpen /\ logger'.fileOpen
            /\ logger'.wrote = -1
            /\ logger'.session = logger.session
            /\ logger'.counter = logger.counter
            /\ logger'.existing = logger.existing
            /\ ~logger'.slept
            /\ ~logger'.flushed]_vars

\* A read failed after line 0 and the retry has written line 1.
C35_Witness ==
    /\ logger.after_raise
    /\ logger.wrote = 1
    /\ logger.session = <<0, 1>>


\* ------------------------------------- temperature-humidity/pico/code.py

\* C36: a measurement cycle makes at most 3 GET attempts and none after the
\* first that succeeds; microcontroller.reset() is invoked exactly when all
\* 3 attempts of the cycle have raised; a cycle whose sensor read raised
\* makes no attempt and does not reset.
C36_ResetOnlyAfterThreeFailures ==
    /\ [](/\ thermo.gets <= maxRetries
          /\ thermo.failures <= thermo.gets
          /\ thermo.pc = "reset" <=> thermo.failures = maxRetries
          /\ thermo.outcome = "reset" <=> thermo.pc = "reset"
          /\ thermo.outcome = "sent" => thermo.failures = thermo.gets - 1
          /\ thermo.outcome = "sensor" =>
                thermo.gets = 0 /\ thermo.slept = <<30, 900>>)
    /\ [][/\ thermo'.gets > thermo.gets =>
                /\ thermo.outcome = "none"
                /\ thermo.failures = thermo.gets
          /\ thermo'.resets > thermo.resets =>
                /\ thermo.gets = maxRetries
                /\ thermo.failures = maxRetries]_vars

\* A cycle was sent at its third attempt, after a cycle that lost the
\* sensor and one that reset the board.
C36_Witness ==
    /\ thermo.history = <<"sensor", "reset", "sent">>
    /\ thermo.gets = 3
    /\ thermo.resets = 1


\* ------------------------------------------------ colorOrganStrip/code.py

\* C37: a received line with colour c makes pixelArray[0] equal to c and
\* pixelArray[k], 1 <= k < numPixels, equal to what pixelArray[k-1] was
\* before the line; after lines with colours c1..cm, m <= numPixels, pixel
\* k of the strip shows c(m-k) for every k < m; and every pixel of the
\* strip is written from pixelArray at an index in 0 .. numPixels-1.
C37_LinesShiftThePixels ==
    /\ [](organ.pc = "loop" =>
            LET m == Len(organ.received)
            IN  /\ m <= numPixels =>
                      \A k \in 0 .. m - 1 :
                          organ.shown[k] = organ.received[m - k]
                /\ organ.sources \subseteq 0 .. numPixels - 1
                /\ DOMAIN organ.pixelArray = 0 .. numPixels - 1
                /\ organ.shown = organ.pixelArray)
    /\ [][organ.pc = "loop" /\ organ'.received # organ.received =>
            /\ organ'.pixelArray[0] =
                  organ'.received[Len(organ'.received)]
            /\ \A k \in 1 .. numPixels - 1 :
                  organ'.pixelArray[k] = organ.pixelArray[k - 1]]_vars

\* The strip is full of three different colours, the latest at pixel 0.
C37_Witness ==
    /\ organ.pc = "loop"
    /\ organ.received = <<<<255, 0, 0>>, <<0, 128, 0>>, <<10, 20, 30>>>>
    /\ organ.shown[0] = <<10, 20, 30>>
    /\ organ.shown[2] = <<255, 0, 0>>


\* ------------------- joystick-zero2w/sensorDataToOSC-05.py: student_name

\* C38: the main loop reads and clears student_name in one critical section
\* under name_lock (no handler stores between the read and the clear, so
\* what is cleared is what was read); each name stored by student_handler is
\* shown at most once, and so never in two iterations; a name stored while
\* an earlier one is pending takes its place, and the earlier one is never
\* shown.
C38_NameHandedOverOnce ==
    /\ [](/\ student.pc \in {"read", "clear"} =>
                /\ student.lock = "main"
                /\ \A h \in Senders : student.handlers[h] # "in"
          /\ \A i, j \in 1 .. Len(student.oled) :
                i # j => /\ student.oled[i][2] # student.oled[j][2]
                         /\ student.oled[i][1] # student.oled[j][1]
          /\ ShownNames \subseteq student.stored
          /\ ShownNames \cap student.replaced = {})
    /\ [][/\ student.pc = "clear" /\ student'.pc = "show" =>
                student.student_name = student.current_name
          /\ \A h \in Senders :
                student.handlers[h] = "in" /\ student'.handlers[h] # "in" =>
                    student'.student_name = <<h>>]_vars

\* Two names were stored before the loop looked: the second took the place
\* of the first and has been shown, and the next iteration showed nothing.
C38_Witness ==
    /\ student.replaced = {"Ada"}
    /\ student.oled = <<<<0, "Bo">>>>
    /\ student.iteration = 2
    /\ student.pc = "top"

====
